---------------------------- MODULE Spec2Model ----------------------------
(***************************************************************************)
(* A model of the data triangulation and intent-resolution engine of the   *)
(* macroeconomic dashboard: the reference catalogs, the value synthesizer, *)
(* the triangulation engine, the aggregation layer, the memoization layer, *)
(* the intent resolver, the query orchestrator, the model loader and the   *)
(* production fetcher of the data pipeline.                                *)
(*                                                                         *)
(* Numbers.  Every float of the program is a fixed-point integer counting  *)
(* thousandths (1.5 is 1500); arithmetic is exact, so the binary rounding  *)
(* error of the program's floats is not modelled.  A value the program     *)
(* rounds to d decimal places is a multiple of 10^(3-d).                   *)
(*                                                                         *)
(* Optional values.  Python's None is the empty tuple and a present value  *)
(* v is the one-element tuple <<v>>.                                       *)
(***************************************************************************)
EXTENDS Integers, Sequences, FiniteSets, TLC

VARIABLES
    rng,      \* the process-wide random stream (module random)
    now,      \* the wall clock read by datetime.now()
    call,     \* the operation in progress and its arguments
    ret,      \* the value the operation returned, until the caller takes it
    cache,    \* the entries of lru_cache on get_cached_data, least recent first
    conversation_history,   \* ChatEngine.conversation_history
    trace,    \* history: the calls made on the collaborators, in order
    model_loader   \* the ModelLoader singleton: _model, is_loaded, model_path

vars == << rng, now, call, ret, cache, conversation_history, trace, model_loader >>

---------------------------------------------------------------------------
(* Bounds of the model. *)

\* A draw of random() is one of the fractions 0/DrawDen .. DrawDen/DrawDen.
DrawDen == 4

\* The stream steps through the draw levels with a stride of 0..MaxStride.
MaxStride == 1

\* get_assessment is probed at every threshold and up to ProbeDelta
\* hundredths on either side of it.
ProbeDelta == 1

---------------------------------------------------------------------------
(* Optional values and generic helpers. *)

None == << >>

Some(v) == << v >>

IsNone(x) == x = << >>

Val(x) == x[1]

Range(s) == { s[i] : i \in DOMAIN s }

\* The one element of a singleton.  Only({ e(x) : x \in { v } }) is e of the
\* value of v, worked out once.
Only(S) == CHOOSE x \in S : TRUE

Abs(x) == IF x < 0 THEN -x ELSE x

Max2(a, b) == IF a >= b THEN a ELSE b

Min2(a, b) == IF a <= b THEN a ELSE b

RECURSIVE SumSeq(_)
SumSeq(s) == IF s = << >> THEN 0 ELSE Head(s) + SumSeq(Tail(s))

MaxSeq(s) == CHOOSE x \in Range(s) : \A y \in Range(s) : y <= x

MinSeq(s) == CHOOSE x \in Range(s) : \A y \in Range(s) : x <= y

\* dict.get(key, default) on a table of << key, value >> pairs.
DictGet(table, key, default) ==
    IF \E i \in DOMAIN table : table[i][1] = key
    THEN table[CHOOSE i \in DOMAIN table : table[i][1] = key][2]
    ELSE default

\* float("inf") and float("-inf"): beyond every value the model computes.
PosInf == 2000000000

NegInf == -2000000000

\* 10^(3-d): the step, in thousandths, of a value with d decimal places.
Unit(decimal_places) ==
    CASE decimal_places = 0 -> 1000
      [] decimal_places = 1 -> 100
      [] decimal_places = 2 -> 10
      [] OTHER -> 1

\* round(num/den, decimal_places) for den > 0: the nearest multiple of the
\* unit, an exact tie going to the even multiple (Python's round).
RoundDiv(num, den, decimal_places) ==
    LET u == Unit(decimal_places) * den
        q == num \div u
        r == num % u
    IN  IF 2 * r < u THEN q * Unit(decimal_places)
        ELSE IF 2 * r > u THEN (q + 1) * Unit(decimal_places)
        ELSE IF q % 2 = 0 THEN q * Unit(decimal_places)
        ELSE (q + 1) * Unit(decimal_places)

Round(x, decimal_places) == RoundDiv(x, 1, decimal_places)

---------------------------------------------------------------------------
(* Reference catalogs: countries and regions (countries.py). *)

CountryTable ==
 <<  [code |-> "USA", name |-> "United States", region |-> "North America", income_level |-> "high"],
     [code |-> "CAN", name |-> "Canada", region |-> "North America", income_level |-> "high"],
     [code |-> "MEX", name |-> "Mexico", region |-> "North America", income_level |-> "upper_middle"],
     [code |-> "BRA", name |-> "Brazil", region |-> "South America", income_level |-> "upper_middle"],
     [code |-> "ARG", name |-> "Argentina", region |-> "South America", income_level |-> "upper_middle"],
     [code |-> "CHL", name |-> "Chile", region |-> "South America", income_level |-> "high"],
     [code |-> "COL", name |-> "Colombia", region |-> "South America", income_level |-> "upper_middle"],
     [code |-> "PER", name |-> "Peru", region |-> "South America", income_level |-> "upper_middle"],
     [code |-> "VEN", name |-> "Venezuela", region |-> "South America", income_level |-> "upper_middle"],
     [code |-> "ECU", name |-> "Ecuador", region |-> "South America", income_level |-> "upper_middle"],
     [code |-> "BOL", name |-> "Bolivia", region |-> "South America", income_level |-> "lower_middle"],
     [code |-> "URY", name |-> "Uruguay", region |-> "South America", income_level |-> "high"],
     [code |-> "PRY", name |-> "Paraguay", region |-> "South America", income_level |-> "upper_middle"],
     [code |-> "GBR", name |-> "United Kingdom", region |-> "Europe", income_level |-> "high"],
     [code |-> "DEU", name |-> "Germany", region |-> "Europe", income_level |-> "high"],
     [code |-> "FRA", name |-> "France", region |-> "Europe", income_level |-> "high"],
     [code |-> "NLD", name |-> "Netherlands", region |-> "Europe", income_level |-> "high"],
     [code |-> "BEL", name |-> "Belgium", region |-> "Europe", income_level |-> "high"],
     [code |-> "CHE", name |-> "Switzerland", region |-> "Europe", income_level |-> "high"],
     [code |-> "AUT", name |-> "Austria", region |-> "Europe", income_level |-> "high"],
     [code |-> "IRL", name |-> "Ireland", region |-> "Europe", income_level |-> "high"],
     [code |-> "LUX", name |-> "Luxembourg", region |-> "Europe", income_level |-> "high"],
     [code |-> "SWE", name |-> "Sweden", region |-> "Europe", income_level |-> "high"],
     [code |-> "NOR", name |-> "Norway", region |-> "Europe", income_level |-> "high"],
     [code |-> "DNK", name |-> "Denmark", region |-> "Europe", income_level |-> "high"],
     [code |-> "FIN", name |-> "Finland", region |-> "Europe", income_level |-> "high"],
     [code |-> "ISL", name |-> "Iceland", region |-> "Europe", income_level |-> "high"],
     [code |-> "ITA", name |-> "Italy", region |-> "Europe", income_level |-> "high"],
     [code |-> "ESP", name |-> "Spain", region |-> "Europe", income_level |-> "high"],
     [code |-> "PRT", name |-> "Portugal", region |-> "Europe", income_level |-> "high"],
     [code |-> "GRC", name |-> "Greece", region |-> "Europe", income_level |-> "high"],
     [code |-> "SVN", name |-> "Slovenia", region |-> "Europe", income_level |-> "high"],
     [code |-> "HRV", name |-> "Croatia", region |-> "Europe", income_level |-> "high"],
     [code |-> "SRB", name |-> "Serbia", region |-> "Europe", income_level |-> "upper_middle"],
     [code |-> "POL", name |-> "Poland", region |-> "Europe", income_level |-> "high"],
     [code |-> "CZE", name |-> "Czech Republic", region |-> "Europe", income_level |-> "high"],
     [code |-> "HUN", name |-> "Hungary", region |-> "Europe", income_level |-> "high"],
     [code |-> "ROU", name |-> "Romania", region |-> "Europe", income_level |-> "upper_middle"],
     [code |-> "BGR", name |-> "Bulgaria", region |-> "Europe", income_level |-> "upper_middle"],
     [code |-> "UKR", name |-> "Ukraine", region |-> "Europe", income_level |-> "lower_middle"],
     [code |-> "SVK", name |-> "Slovakia", region |-> "Europe", income_level |-> "high"],
     [code |-> "EST", name |-> "Estonia", region |-> "Europe", income_level |-> "high"],
     [code |-> "LVA", name |-> "Latvia", region |-> "Europe", income_level |-> "high"],
     [code |-> "LTU", name |-> "Lithuania", region |-> "Europe", income_level |-> "high"],
     [code |-> "RUS", name |-> "Russia", region |-> "Russia and CIS", income_level |-> "upper_middle"],
     [code |-> "KAZ", name |-> "Kazakhstan", region |-> "Russia and CIS", income_level |-> "upper_middle"],
     [code |-> "UZB", name |-> "Uzbekistan", region |-> "Russia and CIS", income_level |-> "lower_middle"],
     [code |-> "BLR", name |-> "Belarus", region |-> "Russia and CIS", income_level |-> "upper_middle"],
     [code |-> "AZE", name |-> "Azerbaijan", region |-> "Russia and CIS", income_level |-> "upper_middle"],
     [code |-> "GEO", name |-> "Georgia", region |-> "Russia and CIS", income_level |-> "upper_middle"],
     [code |-> "ARM", name |-> "Armenia", region |-> "Russia and CIS", income_level |-> "upper_middle"],
     [code |-> "CHN", name |-> "China", region |-> "Asia", income_level |-> "upper_middle"],
     [code |-> "JPN", name |-> "Japan", region |-> "Asia", income_level |-> "high"],
     [code |-> "KOR", name |-> "South Korea", region |-> "Asia", income_level |-> "high"],
     [code |-> "TWN", name |-> "Taiwan", region |-> "Asia", income_level |-> "high"],
     [code |-> "HKG", name |-> "Hong Kong", region |-> "Asia", income_level |-> "high"],
     [code |-> "MNG", name |-> "Mongolia", region |-> "Asia", income_level |-> "lower_middle"],
     [code |-> "IND", name |-> "India", region |-> "Asia", income_level |-> "lower_middle"],
     [code |-> "PAK", name |-> "Pakistan", region |-> "Asia", income_level |-> "lower_middle"],
     [code |-> "BGD", name |-> "Bangladesh", region |-> "Asia", income_level |-> "lower_middle"],
     [code |-> "LKA", name |-> "Sri Lanka", region |-> "Asia", income_level |-> "lower_middle"],
     [code |-> "NPL", name |-> "Nepal", region |-> "Asia", income_level |-> "lower_middle"],
     [code |-> "IDN", name |-> "Indonesia", region |-> "Asia", income_level |-> "upper_middle"],
     [code |-> "THA", name |-> "Thailand", region |-> "Asia", income_level |-> "upper_middle"],
     [code |-> "VNM", name |-> "Vietnam", region |-> "Asia", income_level |-> "lower_middle"],
     [code |-> "MYS", name |-> "Malaysia", region |-> "Asia", income_level |-> "upper_middle"],
     [code |-> "SGP", name |-> "Singapore", region |-> "Asia", income_level |-> "high"],
     [code |-> "PHL", name |-> "Philippines", region |-> "Asia", income_level |-> "lower_middle"],
     [code |-> "MMR", name |-> "Myanmar", region |-> "Asia", income_level |-> "lower_middle"],
     [code |-> "KHM", name |-> "Cambodia", region |-> "Asia", income_level |-> "lower_middle"],
     [code |-> "SAU", name |-> "Saudi Arabia", region |-> "Middle East", income_level |-> "high"],
     [code |-> "ARE", name |-> "United Arab Emirates", region |-> "Middle East", income_level |-> "high"],
     [code |-> "ISR", name |-> "Israel", region |-> "Middle East", income_level |-> "high"],
     [code |-> "TUR", name |-> "Turkey", region |-> "Middle East", income_level |-> "upper_middle"],
     [code |-> "IRN", name |-> "Iran", region |-> "Middle East", income_level |-> "lower_middle"],
     [code |-> "IRQ", name |-> "Iraq", region |-> "Middle East", income_level |-> "upper_middle"],
     [code |-> "QAT", name |-> "Qatar", region |-> "Middle East", income_level |-> "high"],
     [code |-> "KWT", name |-> "Kuwait", region |-> "Middle East", income_level |-> "high"],
     [code |-> "OMN", name |-> "Oman", region |-> "Middle East", income_level |-> "high"],
     [code |-> "JOR", name |-> "Jordan", region |-> "Middle East", income_level |-> "upper_middle"],
     [code |-> "LBN", name |-> "Lebanon", region |-> "Middle East", income_level |-> "upper_middle"],
     [code |-> "BHR", name |-> "Bahrain", region |-> "Middle East", income_level |-> "high"],
     [code |-> "EGY", name |-> "Egypt", region |-> "Africa", income_level |-> "lower_middle"],
     [code |-> "MAR", name |-> "Morocco", region |-> "Africa", income_level |-> "lower_middle"],
     [code |-> "DZA", name |-> "Algeria", region |-> "Africa", income_level |-> "lower_middle"],
     [code |-> "TUN", name |-> "Tunisia", region |-> "Africa", income_level |-> "lower_middle"],
     [code |-> "LBY", name |-> "Libya", region |-> "Africa", income_level |-> "upper_middle"],
     [code |-> "ZAF", name |-> "South Africa", region |-> "Africa", income_level |-> "upper_middle"],
     [code |-> "NGA", name |-> "Nigeria", region |-> "Africa", income_level |-> "lower_middle"],
     [code |-> "KEN", name |-> "Kenya", region |-> "Africa", income_level |-> "lower_middle"],
     [code |-> "ETH", name |-> "Ethiopia", region |-> "Africa", income_level |-> "low"],
     [code |-> "GHA", name |-> "Ghana", region |-> "Africa", income_level |-> "lower_middle"],
     [code |-> "TZA", name |-> "Tanzania", region |-> "Africa", income_level |-> "lower_middle"],
     [code |-> "UGA", name |-> "Uganda", region |-> "Africa", income_level |-> "low"],
     [code |-> "AGO", name |-> "Angola", region |-> "Africa", income_level |-> "lower_middle"],
     [code |-> "SEN", name |-> "Senegal", region |-> "Africa", income_level |-> "lower_middle"],
     [code |-> "CIV", name |-> "Ivory Coast", region |-> "Africa", income_level |-> "lower_middle"],
     [code |-> "CMR", name |-> "Cameroon", region |-> "Africa", income_level |-> "lower_middle"],
     [code |-> "ZWE", name |-> "Zimbabwe", region |-> "Africa", income_level |-> "lower_middle"],
     [code |-> "RWA", name |-> "Rwanda", region |-> "Africa", income_level |-> "low"],
     [code |-> "AUS", name |-> "Australia", region |-> "Oceania", income_level |-> "high"],
     [code |-> "NZL", name |-> "New Zealand", region |-> "Oceania", income_level |-> "high"],
     [code |-> "EUU", name |-> "European Union", region |-> "Aggregates", income_level |-> "high"] >>

REGIONS ==
 <<  << "North America",
        << "USA", "CAN", "MEX" >> >>,
     << "South America",
        << "BRA", "ARG", "CHL", "COL", "PER", "VEN", "ECU", "BOL", "URY", "PRY" >> >>,
     << "Europe - Western",
        << "GBR", "DEU", "FRA", "NLD", "BEL", "CHE", "AUT", "IRL", "LUX" >> >>,
     << "Europe - Northern",
        << "SWE", "NOR", "DNK", "FIN", "ISL" >> >>,
     << "Europe - Southern",
        << "ITA", "ESP", "PRT", "GRC", "SVN", "HRV", "SRB" >> >>,
     << "Europe - Eastern",
        << "POL", "CZE", "HUN", "ROU", "BGR", "UKR", "SVK", "EST", "LVA", "LTU" >> >>,
     << "Russia and CIS",
        << "RUS", "KAZ", "UZB", "BLR", "AZE", "GEO", "ARM" >> >>,
     << "Asia - East",
        << "CHN", "JPN", "KOR", "TWN", "HKG", "MNG" >> >>,
     << "Asia - South",
        << "IND", "PAK", "BGD", "LKA", "NPL" >> >>,
     << "Asia - Southeast",
        << "IDN", "THA", "VNM", "MYS", "SGP", "PHL", "MMR", "KHM" >> >>,
     << "Middle East",
        << "SAU", "ARE", "ISR", "TUR", "IRN", "IRQ", "QAT", "KWT", "OMN", "JOR", "LBN", "BHR" >> >>,
     << "Africa - North",
        << "EGY", "MAR", "DZA", "TUN", "LBY" >> >>,
     << "Africa - Sub-Saharan",
        << "ZAF", "NGA", "KEN", "ETH", "GHA", "TZA", "UGA", "AGO", "SEN", "CIV", "CMR", "ZWE", "RWA" >> >>,
     << "Oceania",
        << "AUS", "NZL" >> >> >>

\* COUNTRIES.keys(), in insertion order.
CountryCodes == [i \in DOMAIN CountryTable |-> CountryTable[i].code]

\* The COUNTRIES dict: code -> CountryInfo (the display-only fields
\* sub_region, currency and flag_emoji are left out).
COUNTRIES ==
    [c \in Range(CountryCodes) |->
        CountryTable[CHOOSE i \in DOMAIN CountryTable : CountryTable[i].code = c]]

\* REGIONS.keys(), in declaration order.
RegionNames == [i \in DOMAIN REGIONS |-> REGIONS[i][1]]

---------------------------------------------------------------------------
(* Reference catalogs: indicators and assessment thresholds                *)
(* (indicators.py).  Thresholds are in thousandths.                        *)

IndicatorTable ==
 <<  [code |-> "gdp_growth", display_name |-> "GDP Growth", unit |-> "%", higher_is_better |-> "True", decimal_places |-> 2],
     [code |-> "inflation", display_name |-> "Inflation", unit |-> "%", higher_is_better |-> "False", decimal_places |-> 2],
     [code |-> "unemployment", display_name |-> "Unemployment", unit |-> "%", higher_is_better |-> "False", decimal_places |-> 2],
     [code |-> "interest_rate", display_name |-> "Interest Rate", unit |-> "%", higher_is_better |-> "None", decimal_places |-> 2],
     [code |-> "gdp_per_capita", display_name |-> "GDP Per Capita", unit |-> "USD", higher_is_better |-> "True", decimal_places |-> 0],
     [code |-> "current_account", display_name |-> "Current Account", unit |-> "% of GDP", higher_is_better |-> "None", decimal_places |-> 2],
     [code |-> "government_debt", display_name |-> "Public Debt", unit |-> "% of GDP", higher_is_better |-> "False", decimal_places |-> 1],
     [code |-> "fdi_inflows", display_name |-> "FDI Inflows", unit |-> "% of GDP", higher_is_better |-> "True", decimal_places |-> 2],
     [code |-> "exchange_rate_change", display_name |-> "Currency Change", unit |-> "%", higher_is_better |-> "None", decimal_places |-> 2],
     [code |-> "industrial_production", display_name |-> "Industrial Production", unit |-> "%", higher_is_better |-> "True", decimal_places |-> 2],
     [code |-> "consumer_confidence", display_name |-> "Consumer Confidence", unit |-> "index", higher_is_better |-> "True", decimal_places |-> 1],
     [code |-> "trade_balance", display_name |-> "Trade Balance", unit |-> "% of GDP", higher_is_better |-> "None", decimal_places |-> 2] >>

THRESHOLDS ==
 <<  << "gdp_growth",
        << << 5000, "Strong" >>,
           << 3000, "Good" >>,
           << 1500, "Moderate" >>,
           << 0, "Weak" >>,
           << NegInf, "Contraction" >> >> >>,
     << "inflation",
        << << 2000, "Low" >>,
           << 3500, "Target" >>,
           << 6000, "Elevated" >>,
           << 10000, "High" >>,
           << PosInf, "Critical" >> >> >>,
     << "unemployment",
        << << 4000, "Tight" >>,
           << 5500, "Healthy" >>,
           << 8000, "Elevated" >>,
           << 12000, "High" >>,
           << PosInf, "Crisis" >> >> >>,
     << "interest_rate",
        << << 2000, "Accommodative" >>,
           << 5000, "Neutral" >>,
           << 8000, "Restrictive" >>,
           << PosInf, "Very Tight" >> >> >>,
     << "gdp_per_capita",
        << << 40000000, "High Income" >>,
           << 15000000, "Upper Middle" >>,
           << 4000000, "Lower Middle" >>,
           << NegInf, "Low Income" >> >> >>,
     << "current_account",
        << << 5000, "Large Surplus" >>,
           << 2000, "Surplus" >>,
           << -2000, "Balanced" >>,
           << -5000, "Deficit" >>,
           << NegInf, "Large Deficit" >> >> >>,
     << "government_debt",
        << << 40000, "Low" >>,
           << 60000, "Moderate" >>,
           << 90000, "High" >>,
           << 120000, "Very High" >>,
           << PosInf, "Critical" >> >> >>,
     << "fdi_inflows",
        << << 5000, "Excellent" >>,
           << 3000, "Strong" >>,
           << 1500, "Moderate" >>,
           << NegInf, "Weak" >> >> >>,
     << "exchange_rate_change",
        << << 10000, "Strong Appreciation" >>,
           << 3000, "Appreciation" >>,
           << -3000, "Stable" >>,
           << -10000, "Depreciation" >>,
           << NegInf, "Sharp Depreciation" >> >> >>,
     << "industrial_production",
        << << 6000, "Boom" >>,
           << 3000, "Growth" >>,
           << 1000, "Moderate" >>,
           << 0, "Stagnant" >>,
           << NegInf, "Contraction" >> >> >>,
     << "consumer_confidence",
        << << 105000, "Optimistic" >>,
           << 100000, "Neutral" >>,
           << 95000, "Cautious" >>,
           << NegInf, "Pessimistic" >> >> >>,
     << "trade_balance",
        << << 8000, "Large Surplus" >>,
           << 3000, "Surplus" >>,
           << -3000, "Balanced" >>,
           << -8000, "Deficit" >>,
           << NegInf, "Large Deficit" >> >> >> >>

\* INDICATORS.keys(), in insertion order.
IndicatorCodes == [i \in DOMAIN IndicatorTable |-> IndicatorTable[i].code]

\* The INDICATORS dict: code -> IndicatorConfig.  higher_is_better is the
\* text of the Python value: "True", "False" or "None".
INDICATORS ==
    [c \in Range(IndicatorCodes) |->
        IndicatorTable[CHOOSE i \in DOMAIN IndicatorTable : IndicatorTable[i].code = c]]


---------------------------------------------------------------------------
(* Assessment (indicators.py).                                             *)

\* get_assessment(indicator_code, value): the label of the first threshold,
\* in list order, that the value meets (>= for higher-is-better and neutral
\* indicators, <= for lower-is-better ones); "Moderate" when the indicator
\* has no thresholds or no threshold is met.  The description that goes
\* with each label is left out.
RECURSIVE FirstMet(_, _, _)
FirstMet(thresholds, value, at_or_below) ==
    IF thresholds = << >> THEN "Moderate"
    ELSE IF (at_or_below /\ value <= Head(thresholds)[1])
            \/ (~at_or_below /\ value >= Head(thresholds)[1])
         THEN Head(thresholds)[2]
         ELSE FirstMet(Tail(thresholds), value, at_or_below)

\* Mutant: the direction of the indicator is ignored and every list is
\* scanned with >=.
get_assessment_IgnoringDirection(indicator_code, value) ==
    IF ~(\E i \in DOMAIN THRESHOLDS : THRESHOLDS[i][1] = indicator_code)
    THEN "Moderate"
    ELSE FirstMet(DictGet(THRESHOLDS, indicator_code, << >>), value, FALSE)

get_assessment(indicator_code, value) ==
    IF ~(\E i \in DOMAIN THRESHOLDS : THRESHOLDS[i][1] = indicator_code)
    THEN "Moderate"
    ELSE LET thresholds == DictGet(THRESHOLDS, indicator_code, << >>)
             lower == /\ indicator_code \in DOMAIN INDICATORS
                      /\ INDICATORS[indicator_code].higher_is_better = "False"
         IN  FirstMet(thresholds, value, lower)

---------------------------------------------------------------------------
(* The shared random stream (module random, seeded in                      *)
(* DataFetcher.__init__).  The stream of the seed is not computed: it is   *)
(* one of a family of periodic streams, fixed when the process starts, and *)
(* pos is how far the process has read into it.                            *)

\* The level, 0..DrawDen, of the k-th next draw (k = 0: the next one).
Draw(r, k) == (r.a + r.b * (r.pos + k)) % (DrawDen + 1)

\* The stream after n draws.
Advance(r, n) == [r EXCEPT !.pos = (@ + n) % (DrawDen + 1)]

\* random.uniform(lo, hi) for a draw of level k: lo + (hi - lo) * random().
Uniform(lo, hi, k) == lo + ((hi - lo) * k) \div DrawDen

---------------------------------------------------------------------------
(* Value synthesizer and triangulation engine (data_fetcher.py).           *)

\* Regional baseline values, in hundredths (2.5 is 250).
REGIONAL_BASELINES ==
 <<  << "North America",
        [gdp_growth |-> 250, inflation |-> 320, unemployment |-> 400, interest_rate |-> 525,
         gdp_per_capita |-> 6500000, current_account |-> -350, government_debt |-> 9500, fdi_inflows |-> 200,
         exchange_rate_change |-> 0, industrial_production |-> 200, consumer_confidence |-> 10200, trade_balance |-> -400] >>,
     << "South America",
        [gdp_growth |-> 200, inflation |-> 850, unemployment |-> 750, interest_rate |-> 950,
         gdp_per_capita |-> 1200000, current_account |-> -250, government_debt |-> 6500, fdi_inflows |-> 300,
         exchange_rate_change |-> -800, industrial_production |-> 150, consumer_confidence |-> 9500, trade_balance |-> 100] >>,
     << "Europe",
        [gdp_growth |-> 120, inflation |-> 280, unemployment |-> 600, interest_rate |-> 400,
         gdp_per_capita |-> 4500000, current_account |-> 250, government_debt |-> 8500, fdi_inflows |-> 250,
         exchange_rate_change |-> -200, industrial_production |-> 50, consumer_confidence |-> 9800, trade_balance |-> 300] >>,
     << "Russia and CIS",
        [gdp_growth |-> 250, inflation |-> 800, unemployment |-> 550, interest_rate |-> 1200,
         gdp_per_capita |-> 1500000, current_account |-> 500, government_debt |-> 2500, fdi_inflows |-> 150,
         exchange_rate_change |-> -1000, industrial_production |-> 300, consumer_confidence |-> 9000, trade_balance |-> 800] >>,
     << "Asia",
        [gdp_growth |-> 500, inflation |-> 350, unemployment |-> 450, interest_rate |-> 450,
         gdp_per_capita |-> 2500000, current_account |-> 300, government_debt |-> 5500, fdi_inflows |-> 350,
         exchange_rate_change |-> -100, industrial_production |-> 500, consumer_confidence |-> 10500, trade_balance |-> 400] >>,
     << "Middle East",
        [gdp_growth |-> 350, inflation |-> 450, unemployment |-> 850, interest_rate |-> 550,
         gdp_per_capita |-> 3000000, current_account |-> 800, government_debt |-> 3500, fdi_inflows |-> 200,
         exchange_rate_change |-> 0, industrial_production |-> 250, consumer_confidence |-> 10000, trade_balance |-> 1000] >>,
     << "Africa",
        [gdp_growth |-> 350, inflation |-> 950, unemployment |-> 1200, interest_rate |-> 1100,
         gdp_per_capita |-> 350000, current_account |-> -400, government_debt |-> 5500, fdi_inflows |-> 250,
         exchange_rate_change |-> -1200, industrial_production |-> 350, consumer_confidence |-> 8800, trade_balance |-> -500] >>,
     << "Oceania",
        [gdp_growth |-> 250, inflation |-> 350, unemployment |-> 400, interest_rate |-> 425,
         gdp_per_capita |-> 5500000, current_account |-> -200, government_debt |-> 4500, fdi_inflows |-> 300,
         exchange_rate_change |-> -300, industrial_production |-> 200, consumer_confidence |-> 10000, trade_balance |-> -100] >>,
     << "Aggregates",
        [gdp_growth |-> 200, inflation |-> 300, unemployment |-> 600, interest_rate |-> 400,
         gdp_per_capita |-> 4000000, current_account |-> 100, government_debt |-> 8000, fdi_inflows |-> 250,
         exchange_rate_change |-> 0, industrial_production |-> 150, consumer_confidence |-> 10000, trade_balance |-> 200] >> >>

\* Income level adjustments: multipliers in hundredths (1.5 is 150).
INCOME_ADJUSTMENTS ==
 <<  << "high", << << "gdp_per_capita", 150 >>, << "inflation", 70 >>, << "unemployment", 80 >> >> >>,
     << "upper_middle", << << "gdp_per_capita", 60 >>, << "inflation", 120 >>, << "unemployment", 100 >> >> >>,
     << "lower_middle", << << "gdp_per_capita", 25 >>, << "inflation", 140 >>, << "unemployment", 110 >> >> >>,
     << "low", << << "gdp_per_capita", 10 >>, << "inflation", 160 >>, << "unemployment", 130 >> >> >> >>

\* Mutant: the floor of gdp_per_capita is forgotten.
ClampSource_NoIncomeFloor(indicator_code, v) ==
    IF indicator_code \in {"unemployment", "inflation", "interest_rate", "government_debt"}
    THEN Max2(100, v)
    ELSE IF indicator_code = "consumer_confidence" THEN Max2(50000, Min2(150000, v))
    ELSE v

\* max(floor, v) and max(lo, min(hi, v)) of the "Ensure valid ranges" step.
ClampSource(indicator_code, v) ==
    IF indicator_code \in {"unemployment", "inflation", "interest_rate", "government_debt"}
    THEN Max2(100, v)
    ELSE IF indicator_code = "gdp_per_capita" THEN Max2(500000, v)
    ELSE IF indicator_code = "consumer_confidence" THEN Max2(50000, Min2(150000, v))
    ELSE v

\* random.uniform(...) of the "Add variation" step, for a draw of level k.
Variation(indicator_code, k) ==
    IF indicator_code = "gdp_per_capita" THEN Uniform(-5000000, 5000000, k)
    ELSE IF indicator_code = "consumer_confidence" THEN Uniform(-8000, 8000, k)
    ELSE IF indicator_code = "government_debt" THEN Uniform(-15000, 15000, k)
    ELSE Uniform(-1500, 1500, k)

\* DataFetcher._generate_simulated_value: << fred, wb, oecd >>, reading four
\* draws of the stream r: the shared variation, then one noise per source.
_generate_simulated_value(indicator_code, country, r) ==
    LET baseline == DictGet(REGIONAL_BASELINES, country.region,
                            DictGet(REGIONAL_BASELINES, "Aggregates", << >>))
        base_value == IF indicator_code \in DOMAIN baseline
                      THEN baseline[indicator_code] ELSE 0
        adj == DictGet(INCOME_ADJUSTMENTS, country.income_level, << >>)
        multiplier == DictGet(adj, indicator_code, 100)
        adjusted_base == (base_value * multiplier) \div 10
        variation == Variation(indicator_code, Draw(r, 0))
        fred == adjusted_base + variation + Uniform(-200, 200, Draw(r, 1))
        wb   == adjusted_base + variation + Uniform(-200, 200, Draw(r, 2))
        oecd == adjusted_base + variation + Uniform(-200, 200, Draw(r, 3))
    IN  << ClampSource(indicator_code, fred),
           ClampSource(indicator_code, wb),
           ClampSource(indicator_code, oecd) >>

\* Mutant: abs() is forgotten, so a negative average gives a negative
\* relative spread.
RelativeSpreadBelow_NoAbs(n, total, spread, pct) ==
    IF total > 0
    THEN LET q == total \div 100
             r == total % 100
         IN  spread * n < pct * q + (pct * r + 99) \div 100
    ELSE IF total < 0 THEN TRUE
    ELSE spread < pct * 1000

\* relative_spread < pct, for n values of sum total and spread max - min:
\* relative_spread is spread / |avg| * 100 when avg # 0, and spread itself
\* (in units, so pct * 1000 thousandths) when avg = 0.  With |total| =
\* 100 q + r the first comparison, spread * 100 * n < pct * |total|, is
\* spread * n < pct * q + pct * r / 100, kept in integers of machine size.
RelativeSpreadBelow(n, total, spread, pct) ==
    IF total # 0
    THEN LET q == Abs(total) \div 100
             r == Abs(total) % 100
         IN  spread * n < pct * q + (pct * r + 99) \div 100
    ELSE spread < pct * 1000

\* values = [v for v in [fred, wb, oecd] if v is not None]
NonNull(fred, wb, oecd) ==
    LET present == SelectSeq(<< fred, wb, oecd >>, LAMBDA v : ~IsNone(v))
    IN  [i \in DOMAIN present |-> Val(present[i])]

\* Mutant: the labels of the tightest and the widest band are exchanged.
_calculate_confidence_Swapped(fred, wb, oecd) ==
    LET values == NonNull(fred, wb, oecd)
        n == Len(values)
    IN  IF n = 0 THEN "no_data"
        ELSE IF n = 1 THEN "single_source"
        ELSE LET total == SumSeq(values)
                 spread == MaxSeq(values) - MinSeq(values)
             IN  IF RelativeSpreadBelow(n, total, spread, 5) THEN "low"
                 ELSE IF RelativeSpreadBelow(n, total, spread, 15) THEN "medium"
                 ELSE "high"

\* DataFetcher._calculate_confidence: the confidence level (its description
\* is left out).
_calculate_confidence(fred, wb, oecd) ==
    LET values == NonNull(fred, wb, oecd)
        n == Len(values)
    IN  IF n = 0 THEN "no_data"
        ELSE IF n = 1 THEN "single_source"
        ELSE LET total == SumSeq(values)
                 spread == MaxSeq(values) - MinSeq(values)
             IN  IF RelativeSpreadBelow(n, total, spread, 5) THEN "high"
                 ELSE IF RelativeSpreadBelow(n, total, spread, 15) THEN "medium"
                 ELSE "low"

\* Mutant: the period carries the month and not the quarter.
Period_WithMonth(clock) ==
    ToString(clock.year) \o "-M" \o ToString(clock.month)

\* f"{year}-Q{quarter}" with quarter = (month - 1) // 3 + 1.
Period(clock) ==
    ToString(clock.year) \o "-Q" \o ToString((clock.month - 1) \div 3 + 1)

\* Mutant: the sentinel reports a consensus of 0 from single_source data.
SentinelData_ZeroConsensus(indicator_code, country_code) ==
    [country_code |-> country_code, country_name |-> "Unknown",
     region |-> "Unknown", income_level |-> "unknown",
     indicator_code |-> indicator_code, indicator_name |-> "Unknown",
     unit |-> "", fred_value |-> None, worldbank_value |-> None,
     oecd_value |-> None, consensus_value |-> Some(0),
     confidence_level |-> "single_source", assessment_label |-> "Unknown",
     period |-> "N/A", source_count |-> 0]

\* The TriangulatedData returned for an unknown country or indicator.
SentinelData(indicator_code, country_code) ==
    [country_code |-> country_code, country_name |-> "Unknown",
     region |-> "Unknown", income_level |-> "unknown",
     indicator_code |-> indicator_code, indicator_name |-> "Unknown",
     unit |-> "", fred_value |-> None, worldbank_value |-> None,
     oecd_value |-> None, consensus_value |-> None,
     confidence_level |-> "no_data", assessment_label |-> "Unknown",
     period |-> "N/A", source_count |-> 0]

\* Mutant: the mean is cut to thousandths and not rounded to the
\* indicator's decimal places.
Consensus_Unrounded(fred, wb, oecd, decimal_places) == (fred + wb + oecd) \div 3

\* consensus = round((fred + wb + oecd) / 3, decimal_places)
Consensus(fred, wb, oecd, decimal_places) ==
    RoundDiv(fred + wb + oecd, 3, decimal_places)

\* The body of triangulate for a known country and indicator.
TriangulateKnown(indicator, country, r, clock) ==
    LET raw == _generate_simulated_value(indicator.code, country, r)
        decimal_places == indicator.decimal_places
        fred == Round(raw[1], decimal_places)
        wb   == Round(raw[2], decimal_places)
        oecd == Round(raw[3], decimal_places)
        consensus == Consensus(fred, wb, oecd, decimal_places)
    IN  [country_code |-> country.code, country_name |-> country.name,
         region |-> country.region, income_level |-> country.income_level,
         indicator_code |-> indicator.code,
         indicator_name |-> indicator.display_name, unit |-> indicator.unit,
         fred_value |-> Some(fred), worldbank_value |-> Some(wb),
         oecd_value |-> Some(oecd), consensus_value |-> Some(consensus),
         confidence_level |-> _calculate_confidence(Some(fred), Some(wb), Some(oecd)),
         assessment_label |-> get_assessment(indicator.code, consensus),
         period |-> Period(clock), source_count |-> 3]

\* `not country or not indicator`: a code missing from its catalog.
UnknownCode(indicator_code, country_code) ==
    \/ country_code \notin DOMAIN COUNTRIES
    \/ indicator_code \notin DOMAIN INDICATORS

\* DataFetcher.triangulate, on the stream r and the clock: the
\* TriangulatedData it returns (the two description fields are left out).
triangulate(indicator_code, country_code, r, clock) ==
    IF UnknownCode(indicator_code, country_code)
    THEN SentinelData(indicator_code, country_code)
    ELSE TriangulateKnown(INDICATORS[indicator_code], COUNTRIES[country_code],
                          r, clock)

\* Mutant: the four draws are made before the codes are looked up.
TriangulateDraws_BeforeLookup(indicator_code, country_code) == 4

\* The draws one triangulate call reads from the stream.
TriangulateDraws(indicator_code, country_code) ==
    IF UnknownCode(indicator_code, country_code) THEN 0 ELSE 4

---------------------------------------------------------------------------
(* Aggregation layer (data_fetcher.py).                                    *)

\* The draws the calls for codes[1..k] read from the stream.
DrawsEach(indicator_code, codes, k) ==
    4 * Cardinality({ j \in 1..k : ~UnknownCode(indicator_code, codes[j]) })

\* The loop `for code in codes: data = self.triangulate(indicator_code,
\* code)`: the results in loop order, each call reading the stream where
\* the one before left it.
TriangulateEach(indicator_code, codes, r, clock) ==
    [i \in 1..Len(codes) |->
        triangulate(indicator_code, codes[i],
                    Advance(r, DrawsEach(indicator_code, codes, i - 1)), clock)]

\* `if data.consensus_value is not None: results.append(data)`
WithConsensus(results) ==
    SelectSeq(results, LAMBDA d : ~IsNone(d.consensus_value))

\* key=lambda x: x.consensus_value or 0
SortKey(d) == IF IsNone(d.consensus_value) THEN 0 ELSE Val(d.consensus_value)

\* x goes before y in the sorted list: by key, descending under reverse.
Before(x, y, reverse) ==
    IF reverse THEN SortKey(x) > SortKey(y) ELSE SortKey(x) < SortKey(y)

\* results.sort(key=..., reverse=reverse).  list.sort is stable, also under
\* reverse=True: entry i lands behind the entries that go before it and
\* behind the earlier entries of equal key.
SortResults(results, reverse) ==
    LET n == Len(results)
        Place(i) == 1 + Cardinality({ j \in 1..n :
                            \/ Before(results[j], results[i], reverse)
                            \/ /\ j < i
                               /\ ~Before(results[i], results[j], reverse) })
        placed == { << Place(i), i >> : i \in 1..n }
    IN  [k \in 1..n |-> results[(CHOOSE p \in placed : p[1] = k)[2]]]

\* Mutant: reverse = indicator.higher_is_better if indicator else True, so
\* a neutral indicator (None) sorts ascending.
Reverse_NoneIsFalse(indicator_code) ==
    IF indicator_code \in DOMAIN INDICATORS
    THEN INDICATORS[indicator_code].higher_is_better = "True"
    ELSE TRUE

\* reverse = indicator.higher_is_better if indicator and
\*           indicator.higher_is_better is not None else True
Reverse(indicator_code) ==
    IF /\ indicator_code \in DOMAIN INDICATORS
       /\ INDICATORS[indicator_code].higher_is_better # "None"
    THEN INDICATORS[indicator_code].higher_is_better = "True"
    ELSE TRUE

\* DataFetcher.get_region_data.
get_region_data(indicator_code, region, r, clock) ==
    LET codes == DictGet(REGIONS, region, << >>)
        results == WithConsensus(TriangulateEach(indicator_code, codes, r, clock))
    IN  SortResults(results, Reverse(indicator_code))

\* Mutant: the aggregate is not skipped.
RankedCodes_WithAggregate == CountryCodes

\* `for code in COUNTRIES.keys(): if code == "EUU": continue`
RankedCodes == SelectSeq(CountryCodes, LAMBDA code : code # "EUU")

\* results[:limit], a Python slice: a negative limit counts from the end.
SliceTo(results, limit) ==
    IF limit >= 0 THEN SubSeq(results, 1, Min2(limit, Len(results)))
    ELSE SubSeq(results, 1, Max2(Len(results) + limit, 0))

\* DataFetcher.get_global_ranking.
get_global_ranking(indicator_code, limit, r, clock) ==
    LET results == WithConsensus(
                       TriangulateEach(indicator_code, RankedCodes, r, clock))
    IN  SliceTo(SortResults(results, Reverse(indicator_code)), limit)

---------------------------------------------------------------------------
(* The memoization layer (data_fetcher.py): get_data in front of           *)
(* triangulate, through functools.lru_cache.                               *)

\* @lru_cache(maxsize=500)
maxsize == 500

\* "%m", "%d", "%H": two digits.
TwoDigits(n) == IF n < 10 THEN "0" \o ToString(n) ELSE ToString(n)

\* datetime.now().strftime("%Y%m%d%H")
HourBucket(clock) ==
    ToString(clock.year) \o TwoDigits(clock.month) \o TwoDigits(clock.day)
        \o TwoDigits(clock.hour)

\* The positions of the cache that hold a key (lru_cache keys an entry by
\* the call's arguments).
CacheIndex(entries, key) == { n \in DOMAIN entries : entries[n].key = key }

\* Mutant: a hit leaves the entry where it is (first in, first out).
Touch_NoMove(entries, n) == entries

\* A hit makes the entry the most recently used one.
Touch(entries, n) ==
    SubSeq(entries, 1, n - 1) \o SubSeq(entries, n + 1, Len(entries)) \o << entries[n] >>

\* Mutant: nothing is ever dropped.
Store_Unbounded(entries, entry) == Append(entries, entry)

\* A miss stores the new entry, dropping the least recently used one when
\* the cache is full.
Store(entries, entry) ==
    IF Len(entries) >= maxsize THEN Append(Tail(entries), entry)
    ELSE Append(entries, entry)

\* get_cached_data under lru_cache: the value, whether triangulate ran, and
\* the stream and the cache afterwards.
get_cached_data(indicator_code, country_code, cache_key, r, clock, entries) ==
    Only({ IF at # {}
           THEN Only({ [value |-> entries[n].value, triangulated |-> FALSE,
                        rng |-> r, cache |-> Touch(entries, n)] : n \in at })
           ELSE Only({ [value |-> value, triangulated |-> TRUE,
                        rng |-> Advance(r, TriangulateDraws(indicator_code, country_code)),
                        cache |-> Store(entries,
                                    [key |-> << indicator_code, country_code, cache_key >>,
                                     value |-> value])] :
                       value \in { triangulate(indicator_code, country_code, r, clock) } })
           : at \in { CacheIndex(entries, << indicator_code, country_code, cache_key >>) } })

\* get_data
get_data(indicator_code, country_code, r, clock, entries) ==
    get_cached_data(indicator_code, country_code, HourBucket(clock), r, clock, entries)

---------------------------------------------------------------------------
(* Training-data generator (data_pipeline/data_generator.py).  The         *)
(* pipeline's COUNTRIES, REGIONS, regional baselines, thresholds and       *)
(* get_assessment equal the application's, which stand for both; its      *)
(* IndicatorConfig adds a value_range.                                     *)

\* IndicatorConfig.value_range of the pipeline's INDICATORS, in thousandths.
value_range ==
    [gdp_growth |-> << -15000, 20000 >>,
     inflation |-> << -5000, 100000 >>,
     unemployment |-> << 0, 35000 >>,
     interest_rate |-> << 0, 50000 >>,
     gdp_per_capita |-> << 200000, 150000000 >>,
     current_account |-> << -30000, 40000 >>,
     government_debt |-> << 0, 300000 >>,
     fdi_inflows |-> << -10000, 30000 >>,
     exchange_rate_change |-> << -50000, 50000 >>,
     industrial_production |-> << -30000, 30000 >>,
     consumer_confidence |-> << 50000, 150000 >>,
     trade_balance |-> << -40000, 50000 >>]

\* Income level multipliers, in hundredths.
INCOME_MULTIPLIERS ==
 <<  << "high", << << "gdp_per_capita", 150 >>, << "inflation", 70 >>, << "unemployment", 80 >>,
           << "government_debt", 120 >>, << "fdi_inflows", 80 >>, << "consumer_confidence", 105 >> >> >>,
     << "upper_middle", << << "gdp_per_capita", 60 >>, << "inflation", 120 >>, << "unemployment", 100 >>,
           << "government_debt", 90 >>, << "fdi_inflows", 120 >>, << "consumer_confidence", 100 >> >> >>,
     << "lower_middle", << << "gdp_per_capita", 25 >>, << "inflation", 140 >>, << "unemployment", 110 >>,
           << "government_debt", 70 >>, << "fdi_inflows", 130 >>, << "consumer_confidence", 95 >> >> >>,
     << "low", << << "gdp_per_capita", 10 >>, << "inflation", 160 >>, << "unemployment", 130 >>,
           << "government_debt", 50 >>, << "fdi_inflows", 150 >>, << "consumer_confidence", 90 >> >> >> >>

\* DataGenerator._ensure_valid_range.
_ensure_valid_range(value, indicator_code) ==
    IF indicator_code \notin DOMAIN value_range THEN value
    ELSE LET min_val == value_range[indicator_code][1]
             max_val == value_range[indicator_code][2]
         IN  Max2(min_val, Min2(max_val, value))

\* DataGenerator._calculate_confidence: four bands over three values.
GeneratorConfidence(fred, worldbank, oecd) ==
    LET values == << fred, worldbank, oecd >>
        total == SumSeq(values)
        spread == MaxSeq(values) - MinSeq(values)
    IN  IF RelativeSpreadBelow(3, total, spread, 3) THEN "High"
        ELSE IF RelativeSpreadBelow(3, total, spread, 8) THEN "Medium-High"
        ELSE IF RelativeSpreadBelow(3, total, spread, 15) THEN "Medium"
        ELSE "Low"

\* random.randint(1, 4) for a draw of level k.
RandQuarter(k) == 1 + (4 * k) \div (DrawDen + 1)

\* DataGenerator.generate_data_point on the stream r: None for a code
\* missing from its catalog, else the MacroeconomicDataPoint (sub_region
\* and the two description fields are left out).  It reads five draws: the
\* variation, one noise per source, the quarter.
generate_data_point(country_code, indicator_code, r) ==
    IF country_code \notin DOMAIN COUNTRIES \/ indicator_code \notin DOMAIN INDICATORS
    THEN None
    ELSE
    LET country == COUNTRIES[country_code]
        indicator == INDICATORS[indicator_code]
        baseline == DictGet(REGIONAL_BASELINES, country.region,
                            DictGet(REGIONAL_BASELINES, "Aggregates", << >>))
        base_value == IF indicator_code \in DOMAIN baseline
                      THEN baseline[indicator_code] ELSE 0
        multiplier == DictGet(DictGet(INCOME_MULTIPLIERS, country.income_level, << >>),
                              indicator_code, 100)
        adjusted_value == (base_value * multiplier) \div 10
        variation == Variation(indicator_code, Draw(r, 0))
        fred_value == _ensure_valid_range(
            adjusted_value + variation + Uniform(-150, 150, Draw(r, 1)), indicator_code)
        worldbank_value == _ensure_valid_range(
            adjusted_value + variation + Uniform(-150, 150, Draw(r, 2)), indicator_code)
        oecd_value == _ensure_valid_range(
            adjusted_value + variation + Uniform(-150, 150, Draw(r, 3)), indicator_code)
        consensus_value == RoundDiv(fred_value + worldbank_value + oecd_value, 3,
                                    indicator.decimal_places)
    IN  Some([country_code |-> country_code, country_name |-> country.name,
              region |-> country.region, income_level |-> country.income_level,
              indicator_code |-> indicator_code,
              indicator_name |-> indicator.display_name, unit |-> indicator.unit,
              fred_value |-> Round(fred_value, indicator.decimal_places),
              worldbank_value |-> Round(worldbank_value, indicator.decimal_places),
              oecd_value |-> Round(oecd_value, indicator.decimal_places),
              consensus_value |-> consensus_value,
              period |-> "2024-Q" \o ToString(RandQuarter(Draw(r, 4))),
              assessment_label |-> get_assessment(indicator_code, consensus_value),
              confidence_level |-> GeneratorConfidence(fred_value, worldbank_value, oecd_value)])

\* The draws one generate_data_point call reads from the stream.
GenerateDraws(country_code, indicator_code) ==
    IF country_code \notin DOMAIN COUNTRIES \/ indicator_code \notin DOMAIN INDICATORS
    THEN 0 ELSE 5

---------------------------------------------------------------------------
(* Intent resolver (chat_engine.py).  Queries, names, aliases and keywords *)
(* are strings; `x in y` on strings is the substring test.                 *)

\* COUNTRY_ALIASES: << alias, code >>, in insertion order.
COUNTRY_ALIASES ==
 <<  << "usa", "USA" >>, << "us", "USA" >>, << "america", "USA" >>, << "united states", "USA" >>,
     << "uk", "GBR" >>, << "britain", "GBR" >>, << "england", "GBR" >>, << "united kingdom", "GBR" >>,
     << "china", "CHN" >>, << "prc", "CHN" >>, << "india", "IND" >>, << "japan", "JPN" >>,
     << "germany", "DEU" >>, << "france", "FRA" >>, << "brazil", "BRA" >>, << "russia", "RUS" >>,
     << "south korea", "KOR" >>, << "korea", "KOR" >>, << "australia", "AUS" >>, << "canada", "CAN" >>,
     << "mexico", "MEX" >>, << "indonesia", "IDN" >>, << "saudi", "SAU" >>, << "saudi arabia", "SAU" >>,
     << "turkey", "TUR" >>, << "turkiye", "TUR" >>, << "south africa", "ZAF" >>, << "nigeria", "NGA" >>,
     << "egypt", "EGY" >>, << "eu", "EUU" >>, << "european union", "EUU" >>, << "europe", "EUU" >>,
     << "uae", "ARE" >>, << "emirates", "ARE" >>, << "vietnam", "VNM" >>, << "thailand", "THA" >>,
     << "malaysia", "MYS" >>, << "singapore", "SGP" >>, << "philippines", "PHL" >>, << "pakistan", "PAK" >>,
     << "bangladesh", "BGD" >>, << "sri lanka", "LKA" >>, << "nepal", "NPL" >>, << "argentina", "ARG" >>,
     << "chile", "CHL" >>, << "colombia", "COL" >>, << "peru", "PER" >>, << "venezuela", "VEN" >>,
     << "poland", "POL" >>, << "czech", "CZE" >>, << "czech republic", "CZE" >>, << "hungary", "HUN" >>,
     << "romania", "ROU" >>, << "ukraine", "UKR" >>, << "sweden", "SWE" >>, << "norway", "NOR" >>,
     << "denmark", "DNK" >>, << "finland", "FIN" >>, << "netherlands", "NLD" >>, << "holland", "NLD" >>,
     << "belgium", "BEL" >>, << "switzerland", "CHE" >>, << "austria", "AUT" >>, << "ireland", "IRL" >>,
     << "italy", "ITA" >>, << "spain", "ESP" >>, << "portugal", "PRT" >>, << "greece", "GRC" >>,
     << "israel", "ISR" >>, << "iran", "IRN" >>, << "iraq", "IRQ" >>, << "qatar", "QAT" >>,
     << "kuwait", "KWT" >>, << "morocco", "MAR" >>, << "algeria", "DZA" >>, << "kenya", "KEN" >>,
     << "ethiopia", "ETH" >>, << "ghana", "GHA" >>, << "tanzania", "TZA" >>, << "new zealand", "NZL" >> >>

\* METRIC_KEYWORDS: << indicator code, keywords >>, in insertion order.
METRIC_KEYWORDS ==
 <<  << "gdp_growth", << "gdp", "growth", "economic growth", "economy growing", "gdp growth" >> >>,
     << "inflation", << "inflation", "cpi", "prices", "price level", "cost of living", "inflationary" >> >>,
     << "unemployment", << "unemployment", "jobless", "jobs", "labor", "employment", "job market", "unemployed" >> >>,
     << "interest_rate", << "interest rate", "rates", "monetary policy", "central bank", "fed", "ecb", "rbi", "policy rate", "benchmark rate" >> >>,
     << "gdp_per_capita", << "gdp per capita", "income level", "per capita", "wealth per person", "income per person" >> >>,
     << "current_account", << "current account", "external balance", "balance of payments", "external position" >> >>,
     << "government_debt", << "debt", "government debt", "public debt", "fiscal debt", "debt to gdp", "national debt" >> >>,
     << "fdi_inflows", << "fdi", "foreign direct investment", "foreign investment", "investment inflows" >> >>,
     << "exchange_rate_change", << "exchange rate", "currency", "forex", "fx", "currency movement", "appreciation", "depreciation" >> >>,
     << "industrial_production", << "industrial production", "manufacturing", "industrial output", "factory output", "industry" >> >>,
     << "consumer_confidence", << "consumer confidence", "consumer sentiment", "household sentiment", "consumer outlook" >> >>,
     << "trade_balance", << "trade balance", "trade surplus", "trade deficit", "exports", "imports", "trade position" >> >> >>

\* needle in hay, for two strings.
Contains(hay, needle) ==
    \E i \in 1..(Len(hay) - Len(needle) + 1) :
        SubSeq(hay, i, i + Len(needle) - 1) = needle

\* str.lower() of one character.
LowerChar(c) ==
    LET upper == "ABCDEFGHIJKLMNOPQRSTUVWXYZ"
        lower == "abcdefghijklmnopqrstuvwxyz"
    IN  IF \E i \in 1..26 : SubSeq(upper, i, i) = c
        THEN LET i == CHOOSE i \in 1..26 : SubSeq(upper, i, i) = c
             IN  SubSeq(lower, i, i)
        ELSE c

\* str.lower(): every character lowered, halving the string to do so.
RECURSIVE Lower(_)
Lower(s) ==
    IF Len(s) = 0 THEN ""
    ELSE IF Len(s) = 1 THEN LowerChar(s)
    ELSE Lower(SubSeq(s, 1, Len(s) \div 2))
         \o Lower(SubSeq(s, Len(s) \div 2 + 1, Len(s)))

\* region_lower.replace(" - ", " "): every " - " becomes one space, left to
\* right.
RECURSIVE ReplaceDash(_)
ReplaceDash(s) ==
    IF Len(s) < 3 THEN s
    ELSE IF SubSeq(s, 1, 3) = " - " THEN " " \o ReplaceDash(SubSeq(s, 4, Len(s)))
    ELSE SubSeq(s, 1, 1) \o ReplaceDash(SubSeq(s, 2, Len(s)))

\* any(w in query_lower for w in words)
AnyIn(words, query_lower) ==
    \E i \in DOMAIN words : Contains(query_lower, words[i])

comparison_words == << "compare", "vs", "versus", "difference", "between", "comparison" >>

ranking_words == << "ranking", "top", "highest", "lowest", "best", "worst", "rank", "leading" >>

\* Mutant: the codes are listed in the order the query mentions them.
DetectIndicators_MentionOrder(query_lower) ==
    LET hit == SelectSeq(METRIC_KEYWORDS, LAMBDA e : AnyIn(e[2], query_lower))
        Occurs(i, p) == \E w \in Range(hit[i][2]) :
                            /\ p + Len(w) - 1 <= Len(query_lower)
                            /\ SubSeq(query_lower, p, p + Len(w) - 1) = w
        At(i) == CHOOSE p \in 1..Len(query_lower) :
                    Occurs(i, p) /\ \A o \in 1..(p - 1) : ~Occurs(i, o)
        Place(i) == 1 + Cardinality({ j \in DOMAIN hit :
                            \/ At(j) < At(i)
                            \/ At(j) = At(i) /\ j < i })
    IN  IF hit = << >> THEN << "gdp_growth" >>
        ELSE [k \in DOMAIN hit |-> hit[CHOOSE i \in DOMAIN hit : Place(i) = k][1]]

\* Mutant: the default indicator is forgotten.
DetectIndicators_NoDefault(query_lower) ==
    LET hit == SelectSeq(METRIC_KEYWORDS, LAMBDA e : AnyIn(e[2], query_lower))
    IN  [i \in DOMAIN hit |-> hit[i][1]]

\* "Detect indicators": the codes of METRIC_KEYWORDS, in its order, with a
\* keyword in the query; ["gdp_growth"] when there is none.
DetectIndicators(query_lower) ==
    LET hit == SelectSeq(METRIC_KEYWORDS, LAMBDA e : AnyIn(e[2], query_lower))
    IN  IF hit = << >> THEN << "gdp_growth" >>
        ELSE [i \in DOMAIN hit |-> hit[i][1]]

\* "Detect countries by name": the codes of COUNTRIES, in its order, whose
\* lowered name is in the query (the codes of a dict are distinct).
DetectByName(query_lower) ==
    SelectSeq(CountryCodes,
              LAMBDA code : Contains(query_lower, Lower(COUNTRIES[code].name)))

\* "Detect countries by alias": an alias in the query appends its code
\* unless the list holds it already, aliases taken in table order.
DetectByAlias(query_lower, countries) ==
    LET Hit(i) == /\ Contains(query_lower, COUNTRY_ALIASES[i][1])
                  /\ COUNTRY_ALIASES[i][2] \notin Range(countries)
        hits == { i \in DOMAIN COUNTRY_ALIASES : Hit(i) }
        first == SelectSeq([i \in DOMAIN COUNTRY_ALIASES |-> i],
                     LAMBDA i : /\ i \in hits
                                /\ \A j \in hits :
                                      j < i => COUNTRY_ALIASES[j][2] # COUNTRY_ALIASES[i][2])
    IN  countries \o [k \in DOMAIN first |-> COUNTRY_ALIASES[first[k]][2]]

\* Mutant: the loop does not break, the last region in the query is kept.
DetectRegion_LastHit(query_lower) ==
    LET Hit(i) == LET region_lower == Lower(RegionNames[i])
                  IN  \/ Contains(query_lower, region_lower)
                      \/ Contains(query_lower, ReplaceDash(region_lower))
        hits == { i \in DOMAIN RegionNames : Hit(i) }
    IN  IF hits = {} THEN None
        ELSE Some(RegionNames[CHOOSE i \in hits : \A j \in hits : j <= i])

\* Mutant: only the name as it is written in REGIONS is looked for.
DetectRegion_NameOnly(query_lower) ==
    LET hits == { i \in DOMAIN RegionNames :
                    Contains(query_lower, Lower(RegionNames[i])) }
    IN  IF hits = {} THEN None
        ELSE Some(RegionNames[CHOOSE i \in hits : \A j \in hits : i <= j])

\* "Detect regional intent": the first region of REGIONS, in its order,
\* whose lowered name, as it is or with " - " replaced by " ", is in the
\* query; None when there is none.
DetectRegion(query_lower) ==
    LET Hit(i) == LET region_lower == Lower(RegionNames[i])
                  IN  \/ Contains(query_lower, region_lower)
                      \/ Contains(query_lower, ReplaceDash(region_lower))
        hits == { i \in DOMAIN RegionNames : Hit(i) }
    IN  IF hits = {} THEN None
        ELSE Some(RegionNames[CHOOSE i \in hits : \A j \in hits : i <= j])

\* Mutant: a resolved region is tested before the ranking signal.
QueryType_RegionFirst(is_comparison, is_ranking, is_regional, region, countries) ==
    IF is_comparison /\ Len(countries) >= 2 THEN "comparison"
    ELSE IF is_regional /\ ~IsNone(region) THEN "regional"
    ELSE IF is_ranking THEN "ranking"
    ELSE IF countries # << >> THEN "single_country"
    ELSE "general"

\* "Determine query type".
QueryType(is_comparison, is_ranking, is_regional, region, countries) ==
    IF is_comparison /\ Len(countries) >= 2 THEN "comparison"
    ELSE IF is_ranking THEN "ranking"
    ELSE IF is_regional /\ ~IsNone(region) THEN "regional"
    ELSE IF countries # << >> THEN "single_country"
    ELSE "general"

\* ChatEngine.detect_intent.
detect_intent(query) ==
    LET query_lower == Lower(query)
        indicators == DetectIndicators(query_lower)
        countries == DetectByAlias(query_lower, DetectByName(query_lower))
        is_comparison == AnyIn(comparison_words, query_lower)
        is_ranking == AnyIn(ranking_words, query_lower)
        region == DetectRegion(query_lower)
        is_regional == ~IsNone(region)
    IN  [type |-> QueryType(is_comparison, is_ranking, is_regional, region, countries),
         countries |-> countries, indicators |-> indicators,
         is_comparison |-> is_comparison, is_ranking |-> is_ranking,
         is_regional |-> is_regional, region |-> region]

---------------------------------------------------------------------------
(* Data dispatch (chat_engine.py): fetch_relevant_data.  Each operator     *)
(* gives the data, the stream and the cache afterwards, and the calls it   *)
(* made on the data fetcher, in order.                                     *)

\* intent["region"] as the dictionary key it is used as: None is no key of
\* REGIONS, like the empty string.
RegionKey(region) == IF IsNone(region) THEN "" ELSE Val(region)

\* The record of a call of get_region_data or get_global_ranking; the
\* argument is the region, or the limit in digits.
RankingCall(op, indicator_code, argument, results) ==
    [op |-> op, indicator_code |-> indicator_code, argument |-> argument,
     results |-> results]

\* The loop body of the ranking branch, for indicators[:1].
FetchRanking(intent, r, clock, entries) ==
    IF SliceTo(intent.indicators, 1) = << >>
    THEN [data |-> << >>, rng |-> r, cache |-> entries, calls |-> << >>]
    ELSE Only({
           Only({ [data |-> ranking_data,
                   rng |-> Advance(r, DrawsEach(intent.indicators[1], codes, Len(codes))),
                   cache |-> entries,
                   calls |-> << RankingCall(
                       IF regional THEN "get_region_data" ELSE "get_global_ranking",
                       intent.indicators[1],
                       IF regional THEN RegionKey(intent.region) ELSE "10",
                       ranking_data) >>] :
                  ranking_data \in {
                      IF regional
                      THEN get_region_data(intent.indicators[1], RegionKey(intent.region),
                                           r, clock)
                      ELSE get_global_ranking(intent.indicators[1], 10, r, clock) },
                  codes \in {
                      IF regional
                      THEN DictGet(REGIONS, RegionKey(intent.region), << >>)
                      ELSE RankedCodes } }) :
           regional \in { /\ intent.is_regional
                          /\ ~IsNone(intent.region)
                          /\ Val(intent.region) # "" } })

\* The regional branch, for the first k of indicators[:2]: each listing is
\* cut to its first 10 entries.
RECURSIVE FetchRegional(_, _, _, _, _)
FetchRegional(intent, k, r, clock, entries) ==
    IF k = 0
    THEN [data |-> << >>, rng |-> r, cache |-> entries, calls |-> << >>]
    ELSE Only({
           Only({ [data |-> before.data \o SliceTo(regional_data, 10),
                   rng |-> Advance(before.rng,
                                   DrawsEach(intent.indicators[k], codes, Len(codes))),
                   cache |-> entries,
                   calls |-> Append(before.calls,
                               RankingCall("get_region_data", intent.indicators[k],
                                           RegionKey(intent.region), regional_data))] :
                  regional_data \in {
                      get_region_data(intent.indicators[k], RegionKey(intent.region),
                                      before.rng, clock) },
                  codes \in { DictGet(REGIONS, RegionKey(intent.region), << >>) } }) :
           before \in { FetchRegional(intent, k - 1, r, clock, entries) } })

\* The record of a call of get_data.
RequestCall(indicator_code, country_code, clock, got) ==
    [op |-> "get_data",
     key |-> << indicator_code, country_code, HourBucket(clock) >>,
     value |-> got.value, triangulated |-> got.triangulated]

\* Mutant: the loops call the triangulation engine themselves.
RECURSIVE FetchEach_Direct(_, _, _, _, _)
FetchEach_Direct(pairs, k, r, clock, entries) ==
    IF k = 0
    THEN [data |-> << >>, rng |-> r, cache |-> entries, calls |-> << >>]
    ELSE Only({
           Only({ [data |-> IF IsNone(value.consensus_value) THEN before.data
                            ELSE Append(before.data, value),
                   rng |-> Advance(before.rng, TriangulateDraws(pair[2], pair[1])),
                   cache |-> before.cache,
                   calls |-> Append(before.calls,
                                    RequestCall(pair[2], pair[1], clock,
                                        [value |-> value, triangulated |-> TRUE]))] :
                  value \in { triangulate(pair[2], pair[1], before.rng, clock) } }) :
           before \in { FetchEach_Direct(pairs, k - 1, r, clock, entries) },
           pair \in { pairs[k] } })

\* The loops of the comparison and single_country branches, for the first
\* k of the (country, indicator) pairs: get_data for each, kept when its
\* consensus is not None.
RECURSIVE FetchEach(_, _, _, _, _)
FetchEach(pairs, k, r, clock, entries) ==
    IF k = 0
    THEN [data |-> << >>, rng |-> r, cache |-> entries, calls |-> << >>]
    ELSE Only({
           Only({ [data |-> IF IsNone(got.value.consensus_value) THEN before.data
                            ELSE Append(before.data, got.value),
                   rng |-> got.rng,
                   cache |-> got.cache,
                   calls |-> Append(before.calls,
                                    RequestCall(pair[2], pair[1], clock, got))] :
                  got \in { get_data(pair[2], pair[1], before.rng, clock, before.cache) } }) :
           before \in { FetchEach(pairs, k - 1, r, clock, entries) },
           pair \in { pairs[k] } })

\* for country in countries: for indicator in indicators: the pairs in
\* loop order.
Pairs(countries, indicators) ==
    [n \in 1..(Len(countries) * Len(indicators)) |->
        << countries[((n - 1) \div Len(indicators)) + 1],
           indicators[((n - 1) % Len(indicators)) + 1] >>]

\* Mutant: the comparison loops run over every country and indicator.
ComparisonPairs_Uncapped(intent) == Pairs(intent.countries, intent.indicators)

\* intent["countries"][:3] by intent["indicators"][:2]
ComparisonPairs(intent) ==
    Pairs(SliceTo(intent.countries, 3), SliceTo(intent.indicators, 2))

\* intent["countries"][:1] by intent["indicators"][:3]
SingleCountryPairs(intent) ==
    Pairs(SliceTo(intent.countries, 1), SliceTo(intent.indicators, 3))

\* ChatEngine.fetch_relevant_data.
fetch_relevant_data(intent, r, clock, entries) ==
    IF intent.type = "ranking" THEN FetchRanking(intent, r, clock, entries)
    ELSE IF intent.type = "regional"
    THEN FetchRegional(intent, Len(SliceTo(intent.indicators, 2)), r, clock, entries)
    ELSE IF intent.type \in {"comparison", "single_country"}
    THEN Only({ FetchEach(pairs, Len(pairs), r, clock, entries) :
                pairs \in { IF intent.type = "comparison" THEN ComparisonPairs(intent)
                            ELSE SingleCountryPairs(intent) } })
    ELSE [data |-> << >>, rng |-> r, cache |-> entries, calls |-> << >>]

---------------------------------------------------------------------------
(* ModelLoader (model_loader.py): the singleton that holds the model.      *)
(* Whether the import, the download and the construction of the model      *)
(* succeed is decided outside the program.                                 *)

\* A behaviour constructs at most MaxLoads models.
MaxLoads == 3

\* The loader after ModelLoader(): no model, and constructed counts the
\* models built so far, each model being known by its number.
Unloaded ==
    [_model |-> None, is_loaded |-> FALSE, model_path |-> None, constructed |-> 0]

\* How a load may go: the import fails, the download fails, the
\* construction of the model fails, or all succeed.
LoadOutcomes == { "ImportError", "download failed", "load failed", "ok" }

\* ModelLoader.load_model: the loader afterwards, the model returned, the
\* exception raised.
load_model(loader, outcome) ==
    IF loader._model # None /\ loader.is_loaded
    THEN [loader |-> loader, value |-> loader._model, raised |-> None]
    ELSE IF outcome \in { "ImportError", "download failed" }
    THEN [loader |-> loader, value |-> None, raised |-> Some(outcome)]
    ELSE IF outcome = "load failed"
    THEN [loader |-> [loader EXCEPT !.model_path = Some("model.gguf")],
          value |-> None, raised |-> Some(outcome)]
    ELSE [loader |-> [_model |-> Some(loader.constructed + 1), is_loaded |-> TRUE,
                      model_path |-> Some("model.gguf"),
                      constructed |-> loader.constructed + 1],
          value |-> Some(loader.constructed + 1), raised |-> None]

\* Mutant: unload_model drops the model and leaves is_loaded as it is.
unload_model_KeepsFlag(loader) ==
    IF loader._model # None THEN [loader EXCEPT !._model = None] ELSE loader

\* ModelLoader.unload_model.
unload_model(loader) ==
    IF loader._model # None
    THEN [loader EXCEPT !._model = None, !.is_loaded = FALSE]
    ELSE loader

\* The first next() of generate_stream (lines 130-148): load_model when
\* is_loaded is not set, then the call of the model, then the first turn of
\* the loop over its stream.  Calling None raises TypeError.
FirstTurn(loader, outcome, more) ==
    Only({ IF loaded.raised # None
           THEN [loader |-> loaded.loader, invoked |-> None,
                 raised |-> loaded.raised, streaming |-> FALSE]
           ELSE IF loaded.loader._model = None
           THEN [loader |-> loaded.loader, invoked |-> None,
                 raised |-> Some("TypeError"), streaming |-> FALSE]
           ELSE [loader |-> loaded.loader, invoked |-> loaded.loader._model,
                 raised |-> None, streaming |-> more]
           : loaded \in { IF loader.is_loaded
                          THEN [loader |-> loader, raised |-> None]
                          ELSE load_model(loader, outcome) } })

---------------------------------------------------------------------------
(* The engine as a state machine: one call at a time; ret holds the        *)
(* returned value until the caller has taken it.                           *)

\* The inputs the calls are tried on: every indicator and every region of
\* the catalogs, the first country of every region, the aggregate EUU, and
\* one unknown code of each kind.
IndicatorInputs == Range(IndicatorCodes) \cup {"not_a_code"}

CountryInputs == { REGIONS[i][2][1] : i \in DOMAIN REGIONS } \cup {"EUU", "ZZZ"}

RegionInputs == Range(RegionNames) \cup {"Atlantis"}

LimitInputs == {0, 10, 200}

Idle == [op |-> "idle"]

\* The streams a process may start with, at position 0 (random.seed(42)).
Streams == [a : 0..DrawDen, b : 0..MaxStride, pos : {0}]

\* The clock the process runs under.
Clocks == { [year |-> 2026, month |-> 11, day |-> 1, hour |-> 22] }

\* The module-level state right after import: an empty cache, an empty
\* history, nothing called yet.
Fresh ==
    /\ cache = << >>
    /\ conversation_history = << >>
    /\ trace = << >>
    /\ model_loader = Unloaded

Init ==
    /\ rng \in Streams
    /\ now \in Clocks
    /\ call = Idle
    /\ ret = None
    /\ Fresh

Triangulate(indicator_code, country_code) ==
    /\ call = Idle
    /\ call' = [op |-> "triangulate", indicator_code |-> indicator_code,
                country_code |-> country_code]
    /\ ret' = Some(triangulate(indicator_code, country_code, rng, now))
    /\ rng' = Advance(rng, TriangulateDraws(indicator_code, country_code))
    /\ UNCHANGED << now, cache, conversation_history, trace, model_loader >>

GetRegionData(indicator_code, region) ==
    /\ call = Idle
    /\ call' = [op |-> "get_region_data", indicator_code |-> indicator_code,
                region |-> region]
    /\ ret' = Some(get_region_data(indicator_code, region, rng, now))
    /\ rng' = Advance(rng, DrawsEach(indicator_code, DictGet(REGIONS, region, << >>),
                               Len(DictGet(REGIONS, region, << >>))))
    /\ UNCHANGED << now, cache, conversation_history, trace, model_loader >>

GetGlobalRanking(indicator_code, limit) ==
    /\ call = Idle
    /\ call' = [op |-> "get_global_ranking", indicator_code |-> indicator_code,
                limit |-> limit]
    /\ ret' = Some(get_global_ranking(indicator_code, limit, rng, now))
    /\ rng' = Advance(rng, DrawsEach(indicator_code, RankedCodes, Len(RankedCodes)))
    /\ UNCHANGED << now, cache, conversation_history, trace, model_loader >>

GenerateDataPoint(country_code, indicator_code) ==
    /\ call = Idle
    /\ call' = [op |-> "generate_data_point", indicator_code |-> indicator_code,
                country_code |-> country_code]
    /\ ret' = Some(generate_data_point(country_code, indicator_code, rng))
    /\ rng' = Advance(rng, GenerateDraws(country_code, indicator_code))
    /\ UNCHANGED << now, cache, conversation_history, trace, model_loader >>

\* The caller takes the returned value.
Return ==
    /\ call # Idle
    /\ call' = Idle
    /\ ret' = None
    /\ UNCHANGED << rng, now, cache, conversation_history, trace, model_loader >>

Next ==
    \/ \E i \in IndicatorInputs, c \in CountryInputs : Triangulate(i, c)
    \/ \E i \in IndicatorInputs, g \in RegionInputs : GetRegionData(i, g)
    \/ \E i \in IndicatorInputs, l \in LimitInputs : GetGlobalRanking(i, l)
    \/ \E c \in CountryInputs, i \in IndicatorInputs : GenerateDataPoint(c, i)
    \/ Return

Spec == Init /\ [][Next]_vars

---------------------------------------------------------------------------
(* The pure functions, each applied to inputs drawn at the start.          *)

\* A stream and a clock for the specifications that read neither.
InitQuiet ==
    /\ rng = [a |-> 0, b |-> 0, pos |-> 0]
    /\ now \in Clocks
    /\ ret = None
    /\ Fresh

\* get_assessment is probed at every finite threshold of the indicator and
\* at 0, and up to ProbeDelta hundredths on either side of each.
ProbeValues(indicator_code) ==
    LET thresholds == DictGet(THRESHOLDS, indicator_code, << >>)
        finite == { thresholds[i][1] : i \in DOMAIN thresholds } \ {PosInf, NegInf}
    IN  { t + d * 10 : t \in finite \cup {0}, d \in -ProbeDelta..ProbeDelta }

InitAssess ==
    /\ InitQuiet
    /\ \E i \in IndicatorInputs : \E v1, v2 \in ProbeValues(i) :
          call = [op |-> "get_assessment", indicator_code |-> i, values |-> << v1, v2 >>]

\* get_assessment applied to each value of the call.
GetAssessment ==
    /\ call.op = "get_assessment"
    /\ ret = None
    /\ ret' = Some([k \in DOMAIN call.values |->
                       get_assessment(call.indicator_code, call.values[k])])
    /\ UNCHANGED << rng, now, call, cache, conversation_history, trace, model_loader >>

SpecAssess == InitAssess /\ [][GetAssessment]_vars

\* Observations for _calculate_confidence: None, or a value around 0, 100
\* or -100, up to SpreadSteps steps of 2 and of 2.5 away from it.
SpreadSteps == 3

Observations ==
    {None} \cup { Some(c + d * s) : c \in {0, 100000, -100000},
                                    d \in -SpreadSteps..SpreadSteps, s \in {2000, 2500} }

InitConfidence ==
    /\ InitQuiet
    /\ \E f, w, o \in Observations :
          call = [op |-> "_calculate_confidence", observations |-> << << f, w, o >> >>]

\* Two observation sets around one centre, each value up to PairSteps
\* steps of 4 away from it; only the third value may be None.
PairSteps == 2

PairValues(c) == { Some(c + d * 4000) : d \in -PairSteps..PairSteps }

InitSpread ==
    /\ InitQuiet
    /\ \E c \in {0, 100000, -100000} :
       \E f1, w1, f2, w2 \in PairValues(c) :
       \E o1, o2 \in PairValues(c) \cup {None} :
          call = [op |-> "_calculate_confidence",
                  observations |-> << << f1, w1, o1 >>, << f2, w2, o2 >> >>]

\* _calculate_confidence applied to each observation set of the call.
CalculateConfidence ==
    /\ call.op = "_calculate_confidence"
    /\ ret = None
    /\ ret' = Some([k \in DOMAIN call.observations |->
                       _calculate_confidence(call.observations[k][1],
                                             call.observations[k][2],
                                             call.observations[k][3])])
    /\ UNCHANGED << rng, now, call, cache, conversation_history, trace, model_loader >>

SpecConfidence == InitConfidence /\ [][CalculateConfidence]_vars

SpecSpread == InitSpread /\ [][CalculateConfidence]_vars

\* Queries: up to MaxQueryParts of these fragments, joined by spaces.
MaxQueryParts == 2

QueryFragments ==
    << "Compare GDP growth between USA and China",
       "hello there",
       "top countries in Asia - South by inflation",
       "Compare", "highest", "Japan", "Germany", "Middle East",
       "asia southeast", "unemployment", "GDP per capita", "vs Brazil" >>

RECURSIVE Joined(_)
Joined(parts) ==
    IF parts = 1 THEN Range(QueryFragments)
    ELSE { q \o " " \o f : q \in Joined(parts - 1), f \in Range(QueryFragments) }

Queries == UNION { Joined(parts) : parts \in 1..MaxQueryParts }

InitIntent ==
    /\ InitQuiet
    /\ \E q \in Queries : call = [op |-> "detect_intent", query |-> q]

DetectIntent ==
    /\ call.op = "detect_intent"
    /\ ret = None
    /\ ret' = Some(detect_intent(call.query))
    /\ UNCHANGED << rng, now, call, cache, conversation_history, trace, model_loader >>

SpecIntent == InitIntent /\ [][DetectIntent]_vars

\* Queries that name regions: a region by its name as declared, lowered,
\* or lowered with " - " written as a space, and two regions joined by
\* " and ".
RegionForms(name) == { name, Lower(name), ReplaceDash(Lower(name)) }

RegionQueries ==
    UNION { RegionForms(RegionNames[i]) : i \in DOMAIN RegionNames }
    \cup { Lower(RegionNames[i]) \o " and " \o RegionNames[j] :
              i \in DOMAIN RegionNames, j \in DOMAIN RegionNames }

InitRegion ==
    /\ InitQuiet
    /\ \E q \in RegionQueries : call = [op |-> "detect_intent", query |-> q]

SpecRegion == InitRegion /\ [][DetectIntent]_vars

---------------------------------------------------------------------------
(* get_data under a caller that sweeps the key space: it asks for one new  *)
(* (indicator, country) after the other, in the order of SweepKey, and now *)
(* and then asks again for the first one; the hour may turn once early in  *)
(* the sweep.                                                              *)

SweepIndicators == IndicatorCodes \o << "not_a_code" >>

SweepCountries == CountryCodes \o << "ZZZ" >>

\* The n-th (indicator, country) of the sweep, n = 0, 1, ...: all distinct
\* below Len(SweepIndicators) * Len(SweepCountries).
SweepKey(n) ==
    << SweepIndicators[((n + n \div Len(SweepCountries)) % Len(SweepIndicators)) + 1],
       SweepCountries[(n % Len(SweepCountries)) + 1] >>

\* The get_data calls made so far.
Requests == SelectSeq(trace, LAMBDA e : e.op = "get_data")

\* How many distinct (indicator, country) were asked for so far.
Cursor == Cardinality({ << e.key[1], e.key[2] >> : e \in Range(Requests) })

\* The sweep goes SweepExtra keys beyond the capacity of the cache.
SweepExtra == 2

\* The numbers of distinct keys after which the first key is asked again,
\* and after which the hour may turn.
AskAgainAfter == { 2, maxsize, maxsize + 1 }

TurnAfter == { 2 }

InitCache ==
    /\ rng = [a |-> 0, b |-> 1, pos |-> 0]
    /\ now \in Clocks
    /\ call = Idle
    /\ ret = None
    /\ Fresh

GetData(indicator_code, country_code) ==
    /\ call = Idle
    /\ \E got \in { get_data(indicator_code, country_code, rng, now, cache) } :
          /\ call' = [op |-> "get_data", indicator_code |-> indicator_code,
                      country_code |-> country_code]
          /\ ret' = Some(got.value)
          /\ rng' = got.rng
          /\ cache' = got.cache
          /\ trace' = Append(trace,
                 [op |-> "get_data",
                  key |-> << indicator_code, country_code, HourBucket(now) >>,
                  value |-> got.value, triangulated |-> got.triangulated])
    /\ UNCHANGED << now, conversation_history, model_loader >>

\* The wall clock passes into the next hour of the day.
Tick ==
    /\ call = Idle
    /\ now.hour < 23
    /\ now' = [now EXCEPT !.hour = @ + 1]
    /\ UNCHANGED << rng, call, ret, cache, conversation_history, trace, model_loader >>

NextCache ==
    \/ \E n \in { Cursor } :
          /\ n < maxsize + SweepExtra
          /\ \E key \in { SweepKey(n) } : GetData(key[1], key[2])
    \/ \E key \in { SweepKey(0) } :
          /\ Cursor \in AskAgainAfter
          /\ trace[Len(trace)].key # << key[1], key[2], HourBucket(now) >>
          /\ GetData(key[1], key[2])
    \/ /\ Cursor \in TurnAfter
       /\ Tick
    \/ Return

SpecCache == InitCache /\ [][NextCache]_vars

\* Intents for fetch_relevant_data: any dictionary with the keys of an
\* Intent, its lists up to MaxCountries and MaxIndicators long, known and
\* unknown codes among them.
MaxCountries == 4

MaxIndicators == 4

CountryLists ==
    { SubSeq(s, 1, n) : n \in 0..MaxCountries,
                        s \in { << "USA", "EGY", "CHN", "ZZZ", "JPN", "BRA" >>,
                                << "ZZZ", "EUU", "IND", "USA", "DEU", "FRA" >> } }

IndicatorLists ==
    { SubSeq(s, 1, n) : n \in 0..MaxIndicators,
                        s \in { << "gdp_growth", "inflation", "not_a_code",
                                   "gdp_per_capita", "unemployment", "interest_rate" >>,
                                << "not_a_code", "government_debt", "trade_balance",
                                   "inflation", "gdp_growth", "fdi_inflows" >> } }

IntentTypes == { "ranking", "regional", "comparison", "single_country", "general" }

RegionOptions ==
    { None, Some("Middle East"), Some("Africa - Sub-Saharan"), Some("Oceania"),
      Some("Atlantis") }

Intents ==
    { [type |-> t, countries |-> c, indicators |-> i,
       is_comparison |-> (t = "comparison"), is_ranking |-> (t = "ranking"),
       is_regional |-> f, region |-> g] :
         t \in IntentTypes, c \in CountryLists, i \in IndicatorLists,
         f \in BOOLEAN, g \in RegionOptions }

InitFetch ==
    /\ rng = [a |-> 0, b |-> 1, pos |-> 0]
    /\ now \in Clocks
    /\ \E intent \in Intents : call = [op |-> "fetch_relevant_data", intent |-> intent]
    /\ ret = None
    /\ Fresh

FetchRelevantData ==
    /\ call.op = "fetch_relevant_data"
    /\ ret = None
    /\ \E fetched \in { fetch_relevant_data(call.intent, rng, now, cache) } :
          /\ ret' = Some(fetched.data)
          /\ rng' = fetched.rng
          /\ cache' = fetched.cache
          /\ trace' = trace \o fetched.calls
    /\ UNCHANGED << now, call, conversation_history, model_loader >>

SpecFetch == InitFetch /\ [][FetchRelevantData]_vars

---------------------------------------------------------------------------
(* Two runs of one sequence of calls.  The first process seeds the stream, *)
(* makes up to MaxCalls calls and notes each with its result; the second   *)
(* process seeds the stream the same way, at some moment of the same       *)
(* quarter, and makes the calls of the first in the same order.            *)

MaxCalls == 2

\* The calls the runs are made of: the synthesizer, triangulate on known
\* and unknown codes, and the training-data generator.
ReplayCalls ==
    { [op |-> "triangulate", indicator_code |-> i, country_code |-> c] :
          i \in {"gdp_growth", "consumer_confidence"}, c \in {"USA", "ZZZ"} }
    \cup { [op |-> "_generate_simulated_value", indicator_code |-> "gdp_per_capita",
            country_code |-> "EGY"],
           [op |-> "generate_data_point", indicator_code |-> "inflation",
            country_code |-> "USA"] }

\* The moments a process may start at: three of a quarter, one of the
\* quarter before.
ReplayClocks ==
    { [year |-> 2026, month |-> 9, day |-> 30, hour |-> 23],
      [year |-> 2026, month |-> 10, day |-> 1, hour |-> 0],
      [year |-> 2026, month |-> 11, day |-> 1, hour |-> 22],
      [year |-> 2026, month |-> 12, day |-> 31, hour |-> 23] }

SameQuarter(c, d) ==
    /\ c.year = d.year
    /\ (c.month - 1) \div 3 = (d.month - 1) \div 3

\* What a call returns on the stream r and the clock.
ResultOf(c, r, clock) ==
    IF c.op = "triangulate"
    THEN triangulate(c.indicator_code, c.country_code, r, clock)
    ELSE IF c.op = "generate_data_point"
    THEN generate_data_point(c.country_code, c.indicator_code, r)
    ELSE _generate_simulated_value(c.indicator_code, COUNTRIES[c.country_code], r)

\* The draws a call reads.
DrawsOf(c) ==
    IF c.op = "triangulate" THEN TriangulateDraws(c.indicator_code, c.country_code)
    ELSE IF c.op = "generate_data_point"
    THEN GenerateDraws(c.country_code, c.indicator_code)
    ELSE 4

\* The calls the n-th run has made so far, with their results.
RunCalls(n) == SelectSeq(trace, LAMBDA e : e.run = n /\ e.op # "seed")

\* The start of the n-th run, if it has started.
Seeds(n) == SelectSeq(trace, LAMBDA e : e.run = n /\ e.op = "seed")

InitReplay ==
    /\ rng \in { s \in Streams : s.b = 1 }
    /\ now \in Clocks
    /\ call = Idle
    /\ ret = None
    /\ cache = << >>
    /\ conversation_history = << >>
    /\ trace = << [op |-> "seed", run |-> 1, state |-> rng, clock |-> now] >>
    /\ model_loader = Unloaded

\* One call of a run on the shared stream.
Perform(c, n) ==
    /\ call' = c
    /\ ret' = Some(ResultOf(c, rng, now))
    /\ rng' = Advance(rng, DrawsOf(c))
    /\ trace' = Append(trace, [op |-> c.op, run |-> n, call |-> c,
                               result |-> ResultOf(c, rng, now)])
    /\ UNCHANGED << now, cache, conversation_history, model_loader >>

\* The first run makes one more call.
FirstRun(c) ==
    /\ Seeds(2) = << >>
    /\ Len(RunCalls(1)) < MaxCalls
    /\ Perform(c, 1)

\* The second process starts: the seed puts the stream in the state the
\* first run started from.
Reseed ==
    /\ Seeds(2) = << >>
    /\ RunCalls(1) # << >>
    /\ rng' = Seeds(1)[1].state
    /\ now' \in { c \in ReplayClocks : SameQuarter(c, now) }
    /\ call' = Idle
    /\ ret' = None
    /\ trace' = Append(trace, [op |-> "seed", run |-> 2, state |-> rng', clock |-> now'])
    /\ UNCHANGED << cache, conversation_history, model_loader >>

\* The second run makes the next call of the first.
SecondRun ==
    /\ Seeds(2) # << >>
    /\ Len(RunCalls(2)) < Len(RunCalls(1))
    /\ Perform(RunCalls(1)[Len(RunCalls(2)) + 1].call, 2)

NextReplay ==
    \/ \E c \in ReplayCalls : FirstRun(c)
    \/ Reseed
    \/ SecondRun

SpecReplay == InitReplay /\ [][NextReplay]_vars

---------------------------------------------------------------------------
(* ChatEngine.generate_response (chat_engine.py), a generator: the frame   *)
(* of a call is suspended at one of its three yields between two next()    *)
(* of the consumer.  The text generator is outside the engine: what a pull *)
(* of its stream gives (a chunk, the end, an exception) is not decided     *)
(* here.                                                                   *)

\* len(self.conversation_history) > 50
HistoryLimit == 50

\* The chunks of a stream are at most MaxChunks.
MaxChunks == 2

\* The texts a pull may give; a chunk may be empty.
Chunks == { "", "Growth is steady. " }

\* The exceptions a pull may raise: load_model's ImportError, and a failure
\* of the model itself.
Errors ==
    { [class |-> "ImportError", message |-> "llama-cpp-python is required."],
      [class |-> "RuntimeError", message |-> "out of memory"] }

\* What one pull of model_loader.generate_stream may give after n chunks.
Outcomes(n) ==
    { [kind |-> "end"] }
    \cup { [kind |-> "raise", error |-> e] : e \in Errors }
    \cup { [kind |-> "chunk", text |-> c] : c \in IF n < MaxChunks THEN Chunks ELSE {} }

\* Mutant: the handler is `except ImportError`.
Handles_ImportErrorOnly(e) == e.class = "ImportError"

\* `except Exception as e`: the classes of Errors derive from Exception.
Handles(e) == e.class \in {"ImportError", "RuntimeError"}

\* f"I apologize, but I encountered an error generating a response: {str(e)}"
ErrorMessage(e) ==
    "I apologize, but I encountered an error generating a response: " \o e.message

\* One yielded item: (text, None) or (text, data).
Item(text, data) == [op |-> "yield", text |-> text, data |-> data]

\* The note of one pull of the stream.
PullCall(outcome) == [op |-> "generate_stream", outcome |-> outcome]

\* Mutant: the first 50 entries are kept (conversation_history[:50]).
Limit_KeepOldest(history) ==
    IF Len(history) > HistoryLimit THEN SubSeq(history, 1, HistoryLimit) ELSE history

\* self.conversation_history[-50:] when the list is longer than 50.
Limit(history) ==
    IF Len(history) > HistoryLimit
    THEN SubSeq(history, Len(history) - HistoryLimit + 1, Len(history))
    ELSE history

\* The entry generate_response appends for a frame.
Entry(frame) ==
    [query |-> frame.user_query, intent |-> frame.intent,
     response |-> frame.full_response, data |-> frame.data]

\* Lines 261-278: the intent, and the data when use_live_data is set, on
\* the stream r, the clock and the cache; calls notes detect_intent, then
\* fetch_relevant_data and the calls it makes, in order.
Prepare(user_query, use_live_data, r, clock, entries) ==
    Only({
      Only({ [frame |-> [op |-> "generate_response", pc |-> "start",
                         user_query |-> user_query, use_live_data |-> use_live_data,
                         intent |-> intent, data |-> fetched.data,
                         full_response |-> "", chunks |-> 0],
              rng |-> fetched.rng, cache |-> fetched.cache,
              calls |-> << [op |-> "detect_intent", query |-> user_query] >>
                        \o (IF use_live_data
                            THEN << [op |-> "fetch_relevant_data", type |-> intent.type] >>
                            ELSE << >>)
                        \o fetched.calls] :
             fetched \in {
                 IF use_live_data
                 THEN fetch_relevant_data(intent, r, clock, entries)
                 ELSE [data |-> << >>, rng |-> r, cache |-> entries, calls |-> << >>] } }) :
      intent \in { detect_intent(user_query) } })

\* Mutant: the last item is yielded before the entry is appended.
Record_YieldFirst(frame, history) ==
    [frame |-> [frame EXCEPT !.pc = "final"],
     history |-> Limit(Append(history, Entry(frame))),
     calls |-> << Item("", Some(frame.data)),
                  [op |-> "append", query |-> frame.user_query,
                   response |-> frame.full_response] >>]

\* From the append of the history to the last yield (lines 303-315).
Record(frame, history) ==
    [frame |-> [frame EXCEPT !.pc = "final"],
     history |-> Limit(Append(history, Entry(frame))),
     calls |-> << [op |-> "append", query |-> frame.user_query,
                   response |-> frame.full_response],
                  Item("", Some(frame.data)) >>]

\* One turn of the loop over the stream (lines 286-299) and what follows
\* it up to the next yield: a chunk is added to full_response and yielded;
\* at the end of the stream the entry is recorded; an exception the handler
\* takes gives the error message, any other leaves the generator.
Pull(frame, outcome, history) ==
    IF outcome.kind = "chunk"
    THEN [frame |-> [frame EXCEPT !.pc = "chunk",
                                  !.full_response = @ \o outcome.text,
                                  !.chunks = @ + 1],
          history |-> history,
          calls |-> << PullCall(outcome), Item(outcome.text, None) >>]
    ELSE IF outcome.kind = "end"
    THEN Only({ [recorded EXCEPT !.calls = << PullCall(outcome) >> \o @] :
                recorded \in { Record(frame, history) } })
    ELSE IF Handles(outcome.error)
    THEN [frame |-> [op |-> "generate_response", pc |-> "error",
                     user_query |-> frame.user_query,
                     use_live_data |-> frame.use_live_data,
                     intent |-> frame.intent, data |-> frame.data,
                     full_response |-> frame.full_response,
                     chunks |-> frame.chunks,
                     error_msg |-> ErrorMessage(outcome.error)],
          history |-> history,
          calls |-> << PullCall(outcome), Item(ErrorMessage(outcome.error), None) >>]
    ELSE [frame |-> [frame EXCEPT !.pc = "raised"],
          history |-> history,
          calls |-> << PullCall(outcome),
                       [op |-> "raise", class |-> outcome.error.class] >>]

\* Mutant: the stream is opened and pulled before the data is fetched.
StartCalls_StreamFirst(prepared, pulled) == pulled \o prepared

\* The calls of the first next(), in order: lines 261-278, then the loop.
StartCalls(prepared, pulled) == prepared \o pulled

\* The item the consumer got from the last next(): the last yield noted.
LastItem(calls) ==
    Only({ IF last.op = "yield" THEN Some(<< last.text, last.data >>) ELSE None :
           last \in { calls[Len(calls)] } })

---------------------------------------------------------------------------
(* One generate_response call and its consumer.  The history the call      *)
(* starts with is that of earlier calls made without live data, which      *)
(* leave the stream and the cache as they were.                            *)

UserQueries ==
    { "hello there", "Japan inflation", "top countries in Middle East by inflation" }

\* The query and the response of the k-th earlier call.
PastExchange(k) == << "hello there", ToString(k) >>

\* The history after n calls of generate_response("hello there", False),
\* the k-th of them answered with the one chunk k.
Past(n) ==
    Only({ [k \in 1..n |-> [query |-> PastExchange(k)[1], intent |-> intent,
                            response |-> PastExchange(k)[2], data |-> << >>]] :
           intent \in { detect_intent(PastExchange(1)[1]) } })

PastLengths == { 0, HistoryLimit - 1, HistoryLimit }

InitRespond ==
    /\ rng = [a |-> 0, b |-> 1, pos |-> 0]
    /\ now \in Clocks
    /\ call = Idle
    /\ ret = None
    /\ cache = << >>
    /\ conversation_history \in { Past(n) : n \in PastLengths }
    /\ trace = << >>
    /\ model_loader = Unloaded

\* The first next(): the body runs to its first yield.
Start(user_query, use_live_data) ==
    /\ call = Idle
    /\ trace = << >>
    /\ \E outcome \in Outcomes(0),
          prepared \in { Prepare(user_query, use_live_data, rng, now, cache) } :
          \E pulled \in { Pull(prepared.frame, outcome, conversation_history) } :
              /\ call' = pulled.frame
              /\ rng' = prepared.rng
              /\ cache' = prepared.cache
              /\ conversation_history' = pulled.history
              /\ trace' = StartCalls(prepared.calls, pulled.calls)
              /\ ret' = LastItem(pulled.calls)
    /\ UNCHANGED << now, model_loader >>

\* next() on a frame suspended at `yield chunk, None`.
NextChunk ==
    /\ call.op = "generate_response"
    /\ call.pc = "chunk"
    /\ \E outcome \in Outcomes(call.chunks) :
          \E pulled \in { Pull(call, outcome, conversation_history) } :
              /\ call' = pulled.frame
              /\ conversation_history' = pulled.history
              /\ trace' = trace \o pulled.calls
              /\ ret' = LastItem(pulled.calls)
    /\ UNCHANGED << rng, now, cache, model_loader >>

\* Mutant: the message is added to the chunks received so far
\* (full_response += error_msg).
AfterError_Accumulates ==
    /\ call.op = "generate_response"
    /\ call.pc = "error"
    /\ \E recorded \in { Record([call EXCEPT !.full_response = @ \o call.error_msg],
                                conversation_history) } :
          /\ call' = recorded.frame
          /\ conversation_history' = recorded.history
          /\ trace' = trace \o recorded.calls
          /\ ret' = LastItem(recorded.calls)
    /\ UNCHANGED << rng, now, cache, model_loader >>

\* next() on a frame suspended at `yield error_msg, None`: the message
\* becomes the response, and the entry is recorded.
AfterError ==
    /\ call.op = "generate_response"
    /\ call.pc = "error"
    /\ \E recorded \in { Record([call EXCEPT !.full_response = call.error_msg],
                                conversation_history) } :
          /\ call' = recorded.frame
          /\ conversation_history' = recorded.history
          /\ trace' = trace \o recorded.calls
          /\ ret' = LastItem(recorded.calls)
    /\ UNCHANGED << rng, now, cache, model_loader >>

\* next() on a frame suspended at the last yield, or on one an exception
\* has left: the generator is exhausted.
Exhaust ==
    /\ call.op = "generate_response"
    /\ call.pc \in {"final", "raised"}
    /\ call' = Idle
    /\ ret' = None
    /\ UNCHANGED << rng, now, cache, conversation_history, trace, model_loader >>

\* ChatEngine.clear_history, between two calls.
ClearHistory ==
    /\ call = Idle
    /\ conversation_history' = << >>
    /\ UNCHANGED << rng, now, call, ret, cache, trace, model_loader >>

NextRespond ==
    \/ \E q \in UserQueries, l \in BOOLEAN : Start(q, l)
    \/ NextChunk
    \/ AfterError
    \/ Exhaust
    \/ ClearHistory

SpecRespond == InitRespond /\ [][NextRespond]_vars

---------------------------------------------------------------------------
(* The ModelLoader under any caller: load_model, unload_model and          *)
(* generate_stream in any order, a generator being pulled with other calls *)
(* in between; ret notes the last call and how it went.                    *)

InitLoader ==
    /\ rng = [a |-> 0, b |-> 1, pos |-> 0]
    /\ now \in Clocks
    /\ call = Idle
    /\ ret = None
    /\ Fresh

LoadModel ==
    /\ \E outcome \in LoadOutcomes :
          /\ outcome = "ok" => model_loader.constructed < MaxLoads
          /\ \E loaded \in { load_model(model_loader, outcome) } :
                /\ model_loader' = loaded.loader
                /\ ret' = Some([op |-> "load_model",
                                was_loaded |-> model_loader.is_loaded,
                                value |-> loaded.value, raised |-> loaded.raised,
                                built |-> loaded.loader.constructed
                                              - model_loader.constructed])
    /\ UNCHANGED << rng, now, call, cache, conversation_history, trace >>

UnloadModel ==
    /\ model_loader' = unload_model(model_loader)
    /\ ret' = Some([op |-> "unload_model"])
    /\ UNCHANGED << rng, now, call, cache, conversation_history, trace >>

\* generate_stream(prompt): the generator is made, none of its body runs.
GenerateStream ==
    /\ call = Idle
    /\ call' = [op |-> "generate_stream", pc |-> "created", chunks |-> 0,
                stream |-> None]
    /\ ret' = Some([op |-> "generate_stream"])
    /\ UNCHANGED << rng, now, cache, conversation_history, trace, model_loader >>

\* The first next() of the generator.
FirstPull ==
    /\ call.op = "generate_stream"
    /\ call.pc = "created"
    /\ \E outcome \in LoadOutcomes, more \in BOOLEAN :
          /\ outcome = "ok" => model_loader.constructed < MaxLoads
          /\ \E turn \in { FirstTurn(model_loader, outcome, more) } :
                /\ model_loader' = turn.loader
                /\ call' = IF turn.streaming
                           THEN [op |-> "generate_stream", pc |-> "streaming",
                                 chunks |-> 1, stream |-> turn.invoked]
                           ELSE Idle
                /\ ret' = Some([op |-> "next", was_loaded |-> model_loader.is_loaded,
                                invoked |-> turn.invoked, raised |-> turn.raised,
                                built |-> turn.loader.constructed
                                              - model_loader.constructed])
    /\ UNCHANGED << rng, now, cache, conversation_history, trace >>

\* A later next(): one more turn of the loop over the stream of the model.
NextPull ==
    /\ call.op = "generate_stream"
    /\ call.pc = "streaming"
    /\ \E more \in BOOLEAN :
          /\ more => call.chunks < MaxChunks
          /\ call' = IF more THEN [call EXCEPT !.chunks = @ + 1] ELSE Idle
    /\ ret' = Some([op |-> "next", was_loaded |-> model_loader.is_loaded,
                    invoked |-> None, raised |-> None, built |-> 0])
    /\ UNCHANGED << rng, now, cache, conversation_history, trace, model_loader >>

NextLoader ==
    \/ LoadModel
    \/ UnloadModel
    \/ GenerateStream
    \/ FirstPull
    \/ NextPull

SpecLoader == InitLoader /\ [][NextLoader]_vars

---------------------------------------------------------------------------
(* The shared stream and the cache under a caller that mixes triangulate   *)
(* with fetch_relevant_data on intents of every type.                      *)

\* An intent as detect_intent builds one.
IntentOf(type, countries, indicators, is_regional, region) ==
    [type |-> type, countries |-> countries, indicators |-> indicators,
     is_comparison |-> (type = "comparison"), is_ranking |-> (type = "ranking"),
     is_regional |-> is_regional, region |-> region]

\* Intents of the four fetching types over the countries of North America.
DispatchIntents ==
    { IntentOf("single_country", << "USA" >>, << "gdp_growth" >>, FALSE, None),
      IntentOf("single_country", << "ZZZ" >>, << "gdp_growth" >>, FALSE, None),
      IntentOf("comparison", << "USA", "CAN" >>, << "gdp_growth" >>, FALSE, None),
      IntentOf("comparison", << "USA", "USA" >>, << "inflation" >>, FALSE, None),
      IntentOf("ranking", << >>, << "gdp_growth" >>, FALSE, None),
      IntentOf("ranking", << >>, << "gdp_growth" >>, TRUE, Some("North America")),
      IntentOf("regional", << >>, << "gdp_growth", "inflation" >>, TRUE,
               Some("North America")) }

StreamIntents ==
    DispatchIntents \cup
    { intent \in Intents :
        /\ intent.type = "general"
        /\ Len(intent.countries) <= 1
        /\ Len(intent.indicators) <= 1
        /\ intent.is_regional <=> ~IsNone(intent.region) }

InitStream ==
    /\ rng \in { s \in Streams : s.b = 1 }
    /\ now \in Clocks
    /\ call = Idle
    /\ ret = None
    /\ Fresh

FetchIntent(intent) ==
    /\ call = Idle
    /\ Len(trace) < MaxCalls
    /\ \E fetched \in { fetch_relevant_data(intent, rng, now, cache) } :
          /\ call' = [op |-> "fetch_relevant_data", intent |-> intent]
          /\ ret' = Some(fetched.data)
          /\ rng' = fetched.rng
          /\ cache' = fetched.cache
          /\ trace' = trace \o fetched.calls
    /\ UNCHANGED << now, conversation_history, model_loader >>

NextStream ==
    \/ \E i \in { "gdp_growth", "gdp_per_capita", "not_a_code" },
          c \in { "USA", "EUU", "ZZZ" } : Triangulate(i, c)
    \/ \E intent \in StreamIntents : FetchIntent(intent)
    \/ Return

SpecStream == InitStream /\ [][NextStream]_vars

---------------------------------------------------------------------------
(* The production fetcher (data_pipeline/api_fetcher.py): APIFetcher over  *)
(* the FRED, World Bank and OECD services.  What a service answers is the  *)
(* environment's choice; None stands for every way of returning no value.  *)

\* INDICATORS of data_pipeline/indicators.py, the entries the model calls with.
PIPELINE_INDICATORS ==
    [gdp_growth    |-> [higher_is_better |-> Some(TRUE),  decimal_places |-> 2],
     inflation     |-> [higher_is_better |-> Some(FALSE), decimal_places |-> 2],
     interest_rate |-> [higher_is_better |-> None,        decimal_places |-> 2]]

\* REGIONS of data_pipeline/countries.py, the entries the model calls with.
PIPELINE_REGIONS ==
    << << "North America", << "USA", "CAN", "MEX" >> >>,
       << "Oceania", << "AUS", "NZL" >> >> >>

\* The codes of COUNTRIES of data_pipeline/countries.py these regions list.
PIPELINE_COUNTRIES == { "USA", "CAN", "MEX", "AUS", "NZL" }

\* The observations a service may return, in thousandths.
ApiValues == { -1000, 0, 1000 }

ApiAnswers == { None } \cup { Some(v) : v \in ApiValues }

\* fetch_oecd: every path returns value=None.
fetch_oecd(indicator_code, country_code) == None

\* The confidence of two or more values: relative_spread = spread / |avg| * 100
\* with avg = sum / n, or the spread itself when avg is 0; below 5 is high,
\* below 15 medium.
ApiConfidence(values) ==
    LET n == Len(values)
        sum == SumSeq(values)
        spread == MaxSeq(values) - MinSeq(values)
        Below(limit) == IF sum # 0 THEN spread * 100 * n < limit * Abs(sum)
                        ELSE spread < limit * 1000
    IN  IF Below(5) THEN "high" ELSE IF Below(15) THEN "medium" ELSE "low"

\* Mutant: `round(consensus, places) if consensus is not None else None`.
Rounded_WhenNotNone(values, decimal_places) ==
    IF values = << >> THEN None
    ELSE Some(RoundDiv(SumSeq(values), Len(values), decimal_places))

\* `round(consensus, indicator.decimal_places) if consensus else None`,
\* consensus being None, the only value, or sum(values) / len(values): a
\* consensus of 0.0 is false.
Rounded(values, decimal_places) ==
    IF values = << >> \/ SumSeq(values) = 0 THEN None
    ELSE Some(RoundDiv(SumSeq(values), Len(values), decimal_places))

\* APIFetcher.triangulate, given what FRED and the World Bank answer.
api_triangulate(indicator_code, country_code, fred, worldbank) ==
    IF country_code \notin PIPELINE_COUNTRIES
          \/ indicator_code \notin DOMAIN PIPELINE_INDICATORS
    THEN [country_code |-> country_code, indicator_code |-> indicator_code,
          fred_value |-> None, worldbank_value |-> None, oecd_value |-> None,
          consensus_value |-> None, confidence_level |-> "no_data",
          source_count |-> 0]
    ELSE LET oecd == fetch_oecd(indicator_code, country_code)
             found == SelectSeq(<< fred, worldbank, oecd >>, LAMBDA v : v # None)
             values == [i \in 1..Len(found) |-> Val(found[i])]
         IN  [country_code |-> country_code, indicator_code |-> indicator_code,
              fred_value |-> fred, worldbank_value |-> worldbank,
              oecd_value |-> oecd,
              consensus_value |->
                  Rounded(values, PIPELINE_INDICATORS[indicator_code].decimal_places),
              confidence_level |->
                  IF Len(values) = 0 THEN "no_data"
                  ELSE IF Len(values) = 1 THEN "single_source"
                  ELSE ApiConfidence(values),
              source_count |-> Len(values)]

\* APIFetcher.fetch_region_data, answers[i] being what the services answer
\* for the i-th country of the region.  reverse=None (a neutral indicator)
\* is a TypeError of list.sort.
fetch_region_data(indicator_code, region, answers) ==
    LET country_codes == DictGet(PIPELINE_REGIONS, region, << >>)
        results == WithConsensus(
            [i \in 1..Len(country_codes) |->
                api_triangulate(indicator_code, country_codes[i],
                                answers[i].fred, answers[i].worldbank)])
        reverse == IF indicator_code \in DOMAIN PIPELINE_INDICATORS
                   THEN PIPELINE_INDICATORS[indicator_code].higher_is_better
                   ELSE Some(TRUE)
    IN  IF reverse = None THEN [raised |-> Some("TypeError"), value |-> << >>]
        ELSE [raised |-> None, value |-> SortResults(results, Val(reverse))]

PipelineIndicatorInputs == DOMAIN PIPELINE_INDICATORS \cup { "gdp" }

PipelineCountryInputs == { "USA", "NZL", "XXX" }

PipelineRegionInputs == { "North America", "Oceania", "Atlantis" }

InitPipeline ==
    /\ rng = [a |-> 0, b |-> 1, pos |-> 0]
    /\ now \in Clocks
    /\ call = Idle
    /\ ret = None
    /\ Fresh

ApiTriangulate ==
    /\ call = Idle
    /\ \E indicator_code \in PipelineIndicatorInputs,
          country_code \in PipelineCountryInputs,
          fred \in ApiAnswers, worldbank \in ApiAnswers :
          /\ call' = [op |-> "triangulate", indicator_code |-> indicator_code,
                      country_code |-> country_code,
                      fred |-> fred, worldbank |-> worldbank]
          /\ ret' = Some(api_triangulate(indicator_code, country_code,
                                         fred, worldbank))
    /\ UNCHANGED << rng, now, cache, conversation_history, trace, model_loader >>

FetchRegionData ==
    /\ call = Idle
    /\ \E indicator_code \in PipelineIndicatorInputs,
          region \in PipelineRegionInputs :
          \E answers \in [1..Len(DictGet(PIPELINE_REGIONS, region, << >>)) ->
                              [fred : ApiAnswers, worldbank : ApiAnswers]] :
             /\ call' = [op |-> "fetch_region_data",
                         indicator_code |-> indicator_code, region |-> region,
                         answers |-> answers]
             /\ ret' = Some(fetch_region_data(indicator_code, region, answers))
    /\ UNCHANGED << rng, now, cache, conversation_history, trace, model_loader >>

NextPipeline ==
    \/ ApiTriangulate
    \/ FetchRegionData
    \/ Return

SpecPipeline == InitPipeline /\ [][NextPipeline]_vars

---------------------------------------------------------------------------
(* Properties of DataFetcher.triangulate.                                  *)

\* The TriangulatedData records the finished call returned.
Returned ==
    IF call.op = "triangulate" THEN { Val(ret) }
    ELSE IF call.op \in {"get_region_data", "get_global_ranking"} THEN Range(Val(ret))
    ELSE {}

IsSentinel(d) ==
    /\ d.fred_value = None
    /\ d.worldbank_value = None
    /\ d.oecd_value = None
    /\ d.consensus_value = None
    /\ d.confidence_level = "no_data"
    /\ d.assessment_label = "Unknown"
    /\ d.source_count = 0

\* C1: triangulate returns a value for every pair of codes, and when the
\* country code or the indicator code is not in the catalogs the value is
\* the sentinel: the three source values and consensus_value null,
\* confidence_level "no_data", assessment_label "Unknown", source_count 0.
C1_UnknownCodeGivesSentinel ==
    call.op = "triangulate" =>
        /\ ret # None
        /\ (\/ call.country_code \notin Range(CountryCodes)
            \/ call.indicator_code \notin Range(IndicatorCodes))
           => IsSentinel(Val(ret))

\* A call with a known indicator and an unknown country has returned.
C1_Witness ==
    /\ call.op = "triangulate"
    /\ call.country_code = "ZZZ"
    /\ call.indicator_code = "gdp_growth"
    /\ ret # None
    /\ Val(ret).country_name = "Unknown"

\* C2: in every result of triangulate the consensus is null exactly when no
\* source value is non-null; otherwise every source value is a multiple of
\* the indicator's rounding unit and the consensus is a multiple of that
\* unit nearest to the mean of the source values.
C2_ConsensusIsRoundedMean ==
    \A d \in Returned :
        LET values == NonNull(d.fred_value, d.worldbank_value, d.oecd_value)
            n == Len(values)
        IN  /\ IsNone(d.consensus_value) <=> (n = 0)
            /\ (n > 0) =>
                  LET unit == Unit(INDICATORS[d.indicator_code].decimal_places)
                      c == Val(d.consensus_value)
                  IN  /\ \A k \in 1..n : values[k] % unit = 0
                      /\ c % unit = 0
                      /\ 2 * Abs(n * c - SumSeq(values)) <= n * unit

\* A result with three sources whose mean is not itself a multiple of the
\* rounding unit.
C2_Witness ==
    /\ call.op = "triangulate"
    /\ ret # None
    /\ Val(ret).source_count = 3
    /\ LET d == Val(ret)
           unit == Unit(INDICATORS[d.indicator_code].decimal_places)
       IN  (Val(d.fred_value) + Val(d.worldbank_value) + Val(d.oecd_value))
               % (3 * unit) # 0

---------------------------------------------------------------------------
(* Properties of DataFetcher._calculate_confidence.                        *)

\* The non-null values of the k-th observation set of the call.
Observed(k) ==
    NonNull(call.observations[k][1], call.observations[k][2], call.observations[k][3])

SpreadOf(values) == MaxSeq(values) - MinSeq(values)

\* The band of n >= 2 values: (max - min) / |mean| * 100 against 5 and 15,
\* and max - min itself when the mean is 0.
BandOf(values) ==
    LET n == Len(values)
        total == SumSeq(values)
        spread == SpreadOf(values)
        Below(pct) == IF total # 0 THEN spread * 100 * n < pct * Abs(total)
                      ELSE spread < pct * 1000
    IN  IF Below(5) THEN "high" ELSE IF Below(15) THEN "medium" ELSE "low"

\* C3: _calculate_confidence gives "no_data" for 0 non-null observations,
\* "single_source" for 1, and otherwise "high", "medium" or "low" as the
\* relative spread (the absolute spread when the mean is 0) is below 5,
\* below 15, or neither.
C3_ConfidenceBands ==
    (call.op = "_calculate_confidence" /\ ret # None) =>
        \A k \in DOMAIN call.observations :
            LET values == Observed(k)
            IN  Val(ret)[k] = IF Len(values) = 0 THEN "no_data"
                              ELSE IF Len(values) = 1 THEN "single_source"
                              ELSE BandOf(values)

\* Three observations of negative mean whose relative spread is exactly 5.
C3_Witness ==
    /\ call.op = "_calculate_confidence"
    /\ ret # None
    /\ LET values == Observed(1)
       IN  /\ Len(values) = 3
           /\ SumSeq(values) < 0
           /\ SpreadOf(values) * 100 * 3 = 5 * Abs(SumSeq(values))
           /\ Val(ret)[1] = "medium"

Tier(level) ==
    CASE level = "high" -> 1
      [] level = "medium" -> 2
      [] level = "low" -> 3
      [] OTHER -> 0

\* The two observation sets of the call have the same number (at least 2)
\* of values and the same mean, and the second has the larger spread.
SecondSpreadsMore ==
    /\ call.op = "_calculate_confidence"
    /\ ret # None
    /\ Len(call.observations) = 2
    /\ Len(Observed(1)) = Len(Observed(2))
    /\ Len(Observed(1)) >= 2
    /\ SumSeq(Observed(1)) = SumSeq(Observed(2))
    /\ SpreadOf(Observed(1)) < SpreadOf(Observed(2))

\* C4: of two observation sets with the same number (at least 2) of values
\* and the same mean, the one with the larger spread never gets a better
\* tier, in the order high < medium < low.
C4_ConfidenceMonotoneInSpread ==
    SecondSpreadsMore => Tier(Val(ret)[1]) <= Tier(Val(ret)[2])

\* Such a pair where the tiers differ.
C4_Witness ==
    /\ SecondSpreadsMore
    /\ Val(ret)[1] = "high"
    /\ Val(ret)[2] = "low"

---------------------------------------------------------------------------
(* Properties of get_assessment.                                           *)

\* The position of a label in the indicator's threshold list (one past the
\* end for a label that is not in the list).
PositionOf(indicator_code, label) ==
    LET thresholds == DictGet(THRESHOLDS, indicator_code, << >>)
        at == { i \in DOMAIN thresholds : thresholds[i][2] = label }
    IN  IF at = {} THEN Len(thresholds) + 1
        ELSE CHOOSE i \in at : \A j \in at : i <= j

\* get_assessment has returned the labels of the two values of a call on
\* an indicator of the given direction.
Assessed(direction) ==
    /\ call.op = "get_assessment"
    /\ ret # None
    /\ call.indicator_code \in Range(IndicatorCodes)
    /\ INDICATORS[call.indicator_code].higher_is_better = direction

\* C5: for values v1 < v2, on a higher-is-better indicator the label of v2
\* is never at a later position of the threshold list than the label of
\* v1, and on a lower-is-better indicator the label of v1 is never at a
\* later position than the label of v2.
C5_AssessmentMonotone ==
    LET i == call.indicator_code
        v == call.values
        label == Val(ret)
    IN  /\ (Assessed("True") /\ v[1] < v[2])
            => PositionOf(i, label[2]) <= PositionOf(i, label[1])
        /\ (Assessed("False") /\ v[1] < v[2])
            => PositionOf(i, label[1]) <= PositionOf(i, label[2])

\* A lower-is-better indicator and two values whose labels differ.
C5_Witness ==
    /\ Assessed("False")
    /\ call.values[1] < call.values[2]
    /\ PositionOf(call.indicator_code, Val(ret)[1])
          < PositionOf(call.indicator_code, Val(ret)[2])

\* The label of the greatest threshold the value meets or exceeds: the
\* first one a scan in descending order finds.
DescendingScan(indicator_code, value) ==
    LET thresholds == DictGet(THRESHOLDS, indicator_code, << >>)
        met == { i \in DOMAIN thresholds : value >= thresholds[i][1] }
    IN  IF met = {} THEN "Moderate"
        ELSE thresholds[CHOOSE i \in met :
                           \A j \in met : thresholds[j][1] <= thresholds[i][1]][2]

\* C6: on a neutral indicator get_assessment returns the label of the
\* first threshold, scanning in descending order, that the value meets or
\* exceeds.
C6_NeutralDescendingScan ==
    Assessed("None") =>
        \A k \in DOMAIN call.values :
            Val(ret)[k] = DescendingScan(call.indicator_code, call.values[k])

---------------------------------------------------------------------------
(* Properties of get_region_data and get_global_ranking.                   *)

\* The position of a country code in a catalog listing.
IndexIn(codes, code) == CHOOSE k \in DOMAIN codes : codes[k] = code

\* The listing whose order ties keep: the region's list of REGIONS, or the
\* keys of COUNTRIES.
CatalogOrder ==
    IF call.op = "get_region_data" THEN DictGet(REGIONS, call.region, << >>)
    ELSE CountryCodes

\* A ranking call has returned.
Ranked ==
    /\ call.op \in {"get_region_data", "get_global_ranking"}
    /\ ret # None

\* Neighbours i and i + 1 of the returned list are in order, and in catalog
\* order when their consensus values are equal.
InOrder(results, i, descending) ==
    LET x == Val(results[i].consensus_value)
        y == Val(results[i + 1].consensus_value)
    IN  /\ IF descending THEN x >= y ELSE x <= y
        /\ (x = y) => IndexIn(CatalogOrder, results[i].country_code)
                         < IndexIn(CatalogOrder, results[i + 1].country_code)

\* C7: the lists of get_region_data and get_global_ranking are ordered by
\* consensus_value, descending when the indicator's higher_is_better is
\* true or null and ascending when it is false, and entries of equal
\* consensus_value keep the order of their codes in the catalog.
C7_SortedByDirection ==
    Ranked =>
        LET results == Val(ret)
        IN  \A i \in 1..(Len(results) - 1) :
                InOrder(results, i,
                        INDICATORS[call.indicator_code].higher_is_better # "False")

\* A region's list for a lower-is-better indicator that holds both a tie
\* and a strict step.
C7_Witness ==
    /\ Ranked
    /\ call.op = "get_region_data"
    /\ call.indicator_code \in Range(IndicatorCodes)
    /\ INDICATORS[call.indicator_code].higher_is_better = "False"
    /\ LET results == Val(ret)
       IN  /\ \E i \in 1..(Len(results) - 1) :
                 results[i].consensus_value = results[i + 1].consensus_value
           /\ \E i \in 1..(Len(results) - 1) :
                 Val(results[i].consensus_value) < Val(results[i + 1].consensus_value)

\* C8: for a limit >= 0 get_global_ranking returns at most limit entries,
\* none of them the aggregate EUU and none with a null consensus_value.
C8_RankingBounded ==
    (call.op = "get_global_ranking" /\ ret # None /\ call.limit >= 0) =>
        LET results == Val(ret)
        IN  /\ Len(results) <= call.limit
            /\ \A k \in DOMAIN results :
                  /\ results[k].country_code # "EUU"
                  /\ ~IsNone(results[k].consensus_value)

\* A ranking cut to its limit, and one that the limit did not cut.
C8_Witness ==
    /\ call.op = "get_global_ranking"
    /\ ret # None
    /\ \/ call.limit = 10 /\ Len(Val(ret)) = 10
       \/ call.limit = 200 /\ Len(Val(ret)) = Len(CountryCodes) - 1

---------------------------------------------------------------------------
(* The range invariant.                                                    *)

\* The non-null values, consensus included, of a result.
ValuesOf(d) ==
    { Val(x) : x \in { y \in { d.fred_value, d.worldbank_value, d.oecd_value,
                               d.consensus_value } : ~IsNone(y) } }

\* The bounds triangulate keeps for an indicator.
FetcherBounds(indicator_code, v) ==
    /\ indicator_code \in {"unemployment", "inflation", "interest_rate",
                           "government_debt"} => v >= 100
    /\ indicator_code = "gdp_per_capita" => v >= 500000
    /\ indicator_code = "consumer_confidence" => (v >= 50000 /\ v <= 150000)

\* generate_data_point has returned a data point.
Generated ==
    /\ call.op = "generate_data_point"
    /\ ret # None
    /\ ~IsNone(Val(ret))

\* C9: the three source values and the consensus of generate_data_point
\* lie within the indicator's value_range, and every value of triangulate
\* is at least 0.1 for unemployment, inflation, interest_rate and
\* government_debt, at least 500 for gdp_per_capita, and within [50, 150]
\* for consumer_confidence.
C9_RangeInvariant ==
    /\ Generated =>
          LET d == Val(Val(ret))
          IN  \A v \in { d.fred_value, d.worldbank_value, d.oecd_value,
                         d.consensus_value } :
                  /\ value_range[d.indicator_code][1] <= v
                  /\ v <= value_range[d.indicator_code][2]
    /\ \A d \in Returned : \A v \in ValuesOf(d) : FetcherBounds(d.indicator_code, v)

\* generate_data_point has clamped a value to the lower end of the range.
C9_Witness ==
    /\ Generated
    /\ Val(Val(ret)).indicator_code = "gdp_per_capita"
    /\ Val(Val(ret)).fred_value = value_range["gdp_per_capita"][1]

---------------------------------------------------------------------------
(* Properties of ChatEngine.detect_intent.                                 *)

\* C10: the type is decided in priority order: comparison for a comparison
\* signal with at least 2 countries, else ranking for a ranking signal,
\* else regional for a resolved region, else single_country for at least
\* 1 country, else general.
C10_TypePriority ==
    (call.op = "detect_intent" /\ ret # None) =>
        LET d == Val(ret)
        IN  d.type = IF d.is_comparison /\ Len(d.countries) >= 2 THEN "comparison"
                     ELSE IF d.is_ranking THEN "ranking"
                     ELSE IF ~IsNone(d.region) THEN "regional"
                     ELSE IF Len(d.countries) >= 1 THEN "single_country"
                     ELSE "general"

\* A ranking query that also resolves a region and names a country.
C10_Witness ==
    /\ call.op = "detect_intent"
    /\ ret # None
    /\ Val(ret).type = "ranking"
    /\ ~IsNone(Val(ret).region)
    /\ Len(Val(ret).countries) >= 1

---------------------------------------------------------------------------
(* Properties of the lists and the region of an Intent.                    *)

\* detect_intent has returned.
Detected ==
    /\ call.op = "detect_intent"
    /\ ret # None

NoDuplicates(s) == \A i, j \in DOMAIN s : (i # j) => (s[i] # s[j])

\* The position of the first occurrence of needle in hay, 0 when absent.
FirstIndex(hay, needle) ==
    LET at == { i \in 1..(Len(hay) - Len(needle) + 1) :
                  SubSeq(hay, i, i + Len(needle) - 1) = needle }
    IN  IF at = {} THEN 0 ELSE CHOOSE i \in at : \A j \in at : i <= j

\* The position in the query where a country is first mentioned, by its
\* name or by one of its aliases.
FirstMention(code, query_lower) ==
    LET words == { Lower(COUNTRIES[code].name) }
                    \cup { COUNTRY_ALIASES[k][1] : k \in { n \in DOMAIN COUNTRY_ALIASES :
                                                            COUNTRY_ALIASES[n][2] = code } }
        at == { FirstIndex(query_lower, w) : w \in words } \ {0}
    IN  CHOOSE i \in at : \A j \in at : i <= j

\* C11: the countries of an Intent hold no duplicates and are in the order
\* of their first mention in the query; "Compare GDP growth between USA
\* and China" gives type comparison, countries [USA, CHN] and indicators
\* [gdp_growth].
C11_CountriesInMentionOrder ==
    Detected =>
        LET d == Val(ret)
            query_lower == Lower(call.query)
        IN  /\ NoDuplicates(d.countries)
            /\ \A i, j \in DOMAIN d.countries :
                  (i < j) => FirstMention(d.countries[i], query_lower)
                                <= FirstMention(d.countries[j], query_lower)
            /\ (call.query = "Compare GDP growth between USA and China")
                  => /\ d.type = "comparison"
                     /\ d.countries = << "USA", "CHN" >>
                     /\ d.indicators = << "gdp_growth" >>

\* The keywords of the table that occur in the query.
KeywordHits(query_lower) ==
    { k \in DOMAIN METRIC_KEYWORDS :
        \E w \in Range(METRIC_KEYWORDS[k][2]) : Contains(query_lower, w) }

\* The query holds no country name, alias, region name or signal word.
Plain(query_lower) ==
    /\ \A code \in Range(CountryCodes) : ~Contains(query_lower, Lower(COUNTRIES[code].name))
    /\ \A k \in DOMAIN COUNTRY_ALIASES : ~Contains(query_lower, COUNTRY_ALIASES[k][1])
    /\ \A k \in DOMAIN RegionNames :
          /\ ~Contains(query_lower, Lower(RegionNames[k]))
          /\ ~Contains(query_lower, ReplaceDash(Lower(RegionNames[k])))
    /\ \A w \in Range(comparison_words) \cup Range(ranking_words) : ~Contains(query_lower, w)

\* C12: the indicators of an Intent are never empty and hold no
\* duplicates; they are [gdp_growth] when no keyword occurs in the query,
\* and a query without keyword, country, alias, region or signal word has
\* type general and no countries.
C12_IndicatorsDefault ==
    Detected =>
        LET d == Val(ret)
            query_lower == Lower(call.query)
        IN  /\ d.indicators # << >>
            /\ NoDuplicates(d.indicators)
            /\ (KeywordHits(query_lower) = {}) => d.indicators = << "gdp_growth" >>
            /\ (KeywordHits(query_lower) = {} /\ Plain(query_lower))
                  => (d.type = "general" /\ d.countries = << >>)

\* "hello there" has been resolved.
C12_Witness ==
    /\ Detected
    /\ call.query = "hello there"
    /\ Val(ret).type = "general"
    /\ Val(ret).indicators = << "gdp_growth" >>

\* The regions, by position in REGIONS, whose name or dash-less variant
\* occurs in the query.
RegionMatches(query_lower) ==
    { k \in DOMAIN RegionNames :
        \/ Contains(query_lower, Lower(RegionNames[k]))
        \/ Contains(query_lower, ReplaceDash(Lower(RegionNames[k]))) }

\* C13: the region of an Intent is the first region of REGIONS whose
\* lowercased name, or that name with " - " replaced by a space, occurs in
\* the lowercased query, and none when no region matches; is_regional
\* holds exactly when a region is recorded.
C13_FirstRegionWins ==
    Detected =>
        LET d == Val(ret)
            matches == RegionMatches(Lower(call.query))
        IN  /\ d.is_regional <=> ~IsNone(d.region)
            /\ (matches = {}) => IsNone(d.region)
            /\ (matches # {}) =>
                  d.region = Some(RegionNames[CHOOSE k \in matches :
                                                 \A j \in matches : k <= j])

\* A query that matches two regions, one of them only by its variant.
C13_Witness ==
    /\ Detected
    /\ Cardinality(RegionMatches(Lower(call.query))) >= 2
    /\ Contains(Lower(call.query), "asia southeast")
    /\ ~IsNone(Val(ret).region)

---------------------------------------------------------------------------
(* Properties of the memoization layer.                                    *)

\* C17: after any sequence of get_data calls the cache holds at most 500
\* entries, with distinct keys, each key an (indicator code, country code,
\* hour bucket) that was asked for and each value the result for that
\* indicator and country.
C17_CacheBounded ==
    LET keys == { cache[n].key : n \in DOMAIN cache }
    IN  /\ Len(cache) <= 500
        /\ Cardinality(keys) = Len(cache)
        /\ keys \subseteq { e.key : e \in Range(Requests) }
        /\ \A n \in DOMAIN cache :
              /\ cache[n].value.indicator_code = cache[n].key[1]
              /\ cache[n].value.country_code = cache[n].key[2]

\* More than 500 keys were asked for, one of them with an unknown country,
\* and the cache is full.
C17_Witness ==
    /\ Len(cache) = 500
    /\ Cardinality({ e.key : e \in Range(Requests) }) > 500
    /\ \E n \in DOMAIN cache : cache[n].key[2] = "ZZZ"

\* The last call of the trace is a get_data call.
LastIsRequest == (trace # << >>) /\ (trace[Len(trace)].op = "get_data")

\* The calls before the last one that asked for the same key.
Earlier == { p \in 1..(Len(trace) - 1) : /\ trace[p].op = "get_data"
                                         /\ trace[p].key = trace[Len(trace)].key }

\* The last of them.
Previous == CHOOSE p \in Earlier : \A o \in Earlier : o <= p

\* The number of other distinct keys asked for between the previous call
\* for the key and the last one.
OthersBetween ==
    Cardinality({ trace[j].key : j \in { k \in (Previous + 1)..(Len(trace) - 1) :
                                            trace[k].op = "get_data" } })

\* C18: a get_data call whose key (indicator, country and hour bucket) was
\* asked for before, with fewer than 500 other distinct keys asked for in
\* between, returns the earlier result and does not triangulate; every
\* other get_data call triangulates.
C18_RepeatedCallIsCached ==
    LastIsRequest =>
        LET last == trace[Len(trace)]
        IN  IF Earlier # {} /\ OthersBetween < 500
            THEN /\ ~last.triangulated
                 /\ last.value = trace[Previous].value
            ELSE last.triangulated

\* A repeated call with exactly 499 other keys in between.
C18_Witness ==
    /\ LastIsRequest
    /\ Earlier # {}
    /\ OthersBetween = 499
    /\ ~trace[Len(trace)].triangulated

---------------------------------------------------------------------------
(* Properties of ChatEngine.fetch_relevant_data.                           *)

\* fetch_relevant_data has returned for an intent of the given type.
Fetched(type) ==
    /\ call.op = "fetch_relevant_data"
    /\ ret # None
    /\ call.intent.type = type

\* The first n entries of a list, as a set.
FirstOf(s, n) == { s[k] : k \in 1..(IF n < Len(s) THEN n ELSE Len(s)) }

\* Every entry of the data is for one of the given countries and
\* indicators, and has a consensus.
DataWithin(data, countries, indicators) ==
    \A k \in DOMAIN data :
        /\ data[k].country_code \in countries
        /\ data[k].indicator_code \in indicators
        /\ ~IsNone(data[k].consensus_value)

\* C14: a comparison intent asks get_data for at most the first 3
\* countries by the first 2 indicators and returns at most 6 results, a
\* single_country intent for the first country by the first 3 indicators
\* and at most 3 results, a regional intent returns at most 10 results for
\* each of the first 2 indicators, at most 20 in all; every result
\* returned has a consensus.
C14_DispatchCaps ==
    LET intent == call.intent
        data == Val(ret)
        asked == { << e.key[2], e.key[1] >> : e \in Range(Requests) }
    IN  /\ Fetched("comparison") =>
              /\ Len(data) <= 6
              /\ Len(trace) <= 6
              /\ asked \subseteq FirstOf(intent.countries, 3) \X FirstOf(intent.indicators, 2)
              /\ DataWithin(data, FirstOf(intent.countries, 3),
                            FirstOf(intent.indicators, 2))
        /\ Fetched("single_country") =>
              /\ Len(data) <= 3
              /\ Len(trace) <= 3
              /\ asked \subseteq FirstOf(intent.countries, 1) \X FirstOf(intent.indicators, 3)
              /\ DataWithin(data, FirstOf(intent.countries, 1),
                            FirstOf(intent.indicators, 3))
        /\ Fetched("regional") =>
              /\ Len(data) <= 20
              /\ Len(trace) <= 2
              /\ \A i \in FirstOf(intent.indicators, 2) :
                    Cardinality({ k \in DOMAIN data : data[k].indicator_code = i }) <= 10
              /\ DataWithin(data, Range(CountryCodes), FirstOf(intent.indicators, 2))

\* A comparison intent with 4 countries and 4 indicators got 6 results.
C14_Witness ==
    /\ Fetched("comparison")
    /\ Len(call.intent.countries) = 4
    /\ Len(call.intent.indicators) = 4
    /\ Len(Val(ret)) = 6

\* C15: for a ranking intent fetch_relevant_data uses the first indicator
\* only and returns at most 10 results, from the global ranking and from
\* the ranking of a region alike.
C15_RankingCap ==
    Fetched("ranking") =>
        /\ Len(Val(ret)) <= 10
        /\ DataWithin(Val(ret), Range(CountryCodes), FirstOf(call.intent.indicators, 1))

---------------------------------------------------------------------------
(* Properties of the seeded stream.                                        *)

\* C16: two runs that start from the same state of the random stream and
\* make the same calls with the same arguments in the same order, in the
\* same quarter, get the same result call by call.
C16_SameSeedSameResults ==
    \A k \in 1..Len(RunCalls(2)) :
        /\ RunCalls(2)[k].call = RunCalls(1)[k].call
        /\ RunCalls(2)[k].result = RunCalls(1)[k].result

\* The second run, started in another month of the quarter, has made both
\* of its calls; they were the same triangulate call on known codes, and
\* the stream gave the second a result the first did not get.
C16_Witness ==
    /\ Len(RunCalls(2)) = 2
    /\ Seeds(2)[1].clock.month # Seeds(1)[1].clock.month
    /\ RunCalls(2)[1].call = RunCalls(2)[2].call
    /\ RunCalls(2)[1].op = "triangulate"
    /\ RunCalls(2)[1].result.source_count = 3
    /\ RunCalls(2)[1].result # RunCalls(2)[2].result

---------------------------------------------------------------------------
(* Properties of ChatEngine.generate_response.                             *)

\* The places of the trace where a pull of the stream raised.
RaisedAt ==
    { i \in DOMAIN trace : /\ trace[i].op = "generate_stream"
                           /\ trace[i].outcome.kind = "raise" }

\* The frame of the call in progress is suspended at pc.
SuspendedAt(pc) == call.op = "generate_response" /\ call.pc = pc

\* C19: when the text generator raises, at the first pull or after some
\* chunks, the exception does not reach the consumer: the apologetic
\* message is yielded as a text chunk, then an entry with the query and
\* that message is appended to the history, and the item ("", data) is
\* yielded last.
C19_GenerationErrorIsContained ==
    \A i \in RaisedAt :
        LET message == ErrorMessage(trace[i].outcome.error)
        IN  /\ \A j \in DOMAIN trace : trace[j].op # "raise"
            /\ ~SuspendedAt("raised")
            /\ i < Len(trace)
            /\ trace[i + 1] = Item(message, None)
            /\ \/ /\ SuspendedAt("error")
                  /\ Len(trace) = i + 1
                  /\ ret = Some(<< message, None >>)
               \/ /\ Len(trace) = i + 3
                  /\ trace[i + 2] = [op |-> "append", query |-> trace[1].query,
                                     response |-> message]
                  /\ trace[i + 3].op = "yield"
                  /\ trace[i + 3].text = ""
                  /\ trace[i + 3].data # None
                  /\ SuspendedAt("final") =>
                        /\ ret = Some(<< "", Some(call.data) >>)
                        /\ conversation_history # << >>
                        /\ conversation_history[Len(conversation_history)]
                              = [query |-> call.user_query, intent |-> call.intent,
                                 response |-> message, data |-> call.data]

\* The stream raised after a chunk had been yielded, in a call with data
\* that started with a full history; the call is at its last yield.
C19_Witness ==
    /\ SuspendedAt("final")
    /\ RaisedAt # {}
    /\ call.chunks >= 1
    /\ call.data # << >>
    /\ Len(conversation_history) = HistoryLimit
    /\ conversation_history[1].response = "2"

\* The calls that resolve the intent or fetch data.
DataCalls ==
    { "detect_intent", "fetch_relevant_data", "get_data", "get_region_data",
      "get_global_ranking" }

\* The places of the trace where the stream of the text generator is pulled.
PulledAt == { i \in DOMAIN trace : trace[i].op = "generate_stream" }

\* C20: in a generate_response call the intent is detected and all the
\* data is fetched before the text generator is first called, and nothing
\* is fetched once generation has begun.
C20_FetchBeforeGeneration ==
    /\ \A i \in PulledAt :
          /\ trace[1].op = "detect_intent"
          /\ i > 1
          /\ \A j \in DOMAIN trace : trace[j].op \in DataCalls => j < i
    /\ \A pc \in {"chunk", "error", "final"} :
          SuspendedAt(pc) /\ call.use_live_data =>
              /\ trace[2].op = "fetch_relevant_data"
              /\ PulledAt # {}

\* The stream has been pulled three times in a call that had asked get_data
\* for its data before.
C20_Witness ==
    /\ Cardinality(PulledAt) = 3
    /\ \E j \in DOMAIN trace : trace[j].op = "get_data"
    /\ SuspendedAt("final")

---------------------------------------------------------------------------
(* Properties of the catalogs.                                             *)

\* The names of the REGIONS entries that list a country code.
ListedIn(code) ==
    { REGIONS[i][1] : i \in { j \in DOMAIN REGIONS : code \in Range(REGIONS[j][2]) } }

\* C21: every country code listed in REGIONS is a key of COUNTRIES, and
\* the region field of every country is the name of the REGIONS entry
\* that lists it; stated of the entry a get_region_data call walks.
C21_CatalogConsistency ==
    \A i \in DOMAIN REGIONS :
        call.op = "get_region_data" /\ call.region = REGIONS[i][1] =>
            \A code \in Range(REGIONS[i][2]) :
                /\ code \in DOMAIN COUNTRIES
                /\ ListedIn(code) = { COUNTRIES[code].region }

\* The (query, response) pairs of a history, in order.
Exchanges(history) ==
    [k \in DOMAIN history |-> << history[k].query, history[k].response >>]

\* The (query, response) pairs the calls of the trace have appended.
Appended ==
    LET appends == SelectSeq(trace, LAMBDA e : e.op = "append")
    IN  [k \in DOMAIN appends |-> << appends[k].query, appends[k].response >>]

\* The last HistoryLimit elements of a sequence.
MostRecent(s) == SubSeq(s, Max2(1, Len(s) - HistoryLimit + 1), Len(s))

\* The history is the last HistoryLimit of the exchanges of the earlier
\* calls and of this one, in call order, or what is left of them after a
\* clear_history before or after this call.
HistoryIsRecent ==
    /\ Len(conversation_history) <= HistoryLimit
    /\ \/ \E n \in PastLengths :
             Exchanges(conversation_history)
                 = MostRecent([k \in 1..n |-> PastExchange(k)] \o Appended)
       \/ Exchanges(conversation_history) \in { Appended, << >> }
    /\ SuspendedAt("final") =>
          /\ Appended # << >>
          /\ conversation_history # << >>
          /\ Exchanges(conversation_history)[Len(conversation_history)] = Appended[1]

\* C22: after fully consumed generate_response calls and clear_history
\* calls the history holds at most 50 entries, the most recent ones in
\* call order, and a clear_history call leaves it empty.
C22_HistoryBounded ==
    /\ []HistoryIsRecent
    /\ [][call = Idle /\ call' = Idle => conversation_history' = << >>]_vars

\* A call that started with a full history and took two chunks is at its
\* last yield: the oldest entry is gone, the new one is last.
C22_Witness ==
    /\ SuspendedAt("final")
    /\ call.chunks = 2
    /\ Len(conversation_history) = HistoryLimit
    /\ conversation_history[1].response = "2"
    /\ conversation_history[HistoryLimit].query = call.user_query

\* The places of the trace where an item was yielded, and where an entry
\* was appended to the history.
YieldedAt == { i \in DOMAIN trace : trace[i].op = "yield" }

AppendedAt == { i \in DOMAIN trace : trace[i].op = "append" }

\* The generator of the call is exhausted.
FullyConsumed == call = Idle /\ trace # << >>

\* C23: the items of a generate_response call are (text, None) items and
\* then one item ("", data), which is the last one and the only one with
\* data; the call appends one entry to the history, before it yields the
\* last item.
C23_ItemsThenData ==
    /\ \A i \in YieldedAt :
          trace[i].data # None =>
              /\ trace[i].text = ""
              /\ i = Len(trace)
              /\ AppendedAt = { i - 1 }
    /\ Cardinality(AppendedAt) <= 1
    /\ FullyConsumed \/ SuspendedAt("final") =>
          /\ Len(trace) \in YieldedAt
          /\ trace[Len(trace)].data # None
          /\ Cardinality(AppendedAt) = 1
    /\ SuspendedAt("chunk") \/ SuspendedAt("error") =>
          /\ Len(trace) \in YieldedAt
          /\ trace[Len(trace)].data = None
          /\ AppendedAt = {}

\* A call with data was consumed to the end; it had yielded an empty chunk
\* and a chunk of text before the last item.
C23_Witness ==
    /\ FullyConsumed
    /\ Cardinality(YieldedAt) = 3
    /\ \E i \in YieldedAt : trace[i].text = "" /\ trace[i].data = None
    /\ \E i \in YieldedAt : trace[i].text # "" /\ trace[i].data = None
    /\ trace[Len(trace)].data # Some(<< >>)

\* The texts of the (text, None) items among the first n events of the
\* trace, joined in order.
RECURSIVE Received(_)
Received(n) ==
    IF n = 0 THEN ""
    ELSE IF trace[n].op = "yield" /\ trace[n].data = None
    THEN Received(n - 1) \o trace[n].text
    ELSE Received(n - 1)

\* C26: the response of the history entry is the concatenation of the text
\* chunks the consumer got when generation completes or fails before the
\* first chunk; when the stream raises after one chunk or more, the
\* consumer has got those chunks and then the error message, and the entry
\* holds the error message alone.
C26_StoredResponse ==
    \A a \in AppendedAt :
        IF RaisedAt = {}
        THEN trace[a].response = Received(a)
        ELSE \A i \in RaisedAt :
                /\ trace[a].response = ErrorMessage(trace[i].outcome.error)
                /\ Received(a) = Received(i) \o ErrorMessage(trace[i].outcome.error)
                /\ Cardinality({ j \in YieldedAt : j < i }) = 0 =>
                      trace[a].response = Received(a)

\* The stream raised after a chunk of text: the entry holds the message,
\* which is not all the consumer got.
C26_Witness ==
    /\ AppendedAt # {}
    /\ RaisedAt # {}
    /\ \A a \in AppendedAt : trace[a].response # Received(a)
    /\ \E j \in YieldedAt : trace[j].text = "Growth is steady. "

---------------------------------------------------------------------------
(* Properties of the ModelLoader.                                          *)

\* The last call was op.
Last(op) == ret # None /\ Val(ret).op = op

\* C24: under any sequence of load_model, unload_model and generate_stream
\* calls, failing loads among them, the model is called only while
\* is_loaded is set and a model is held: generate_stream on an unloaded
\* loader loads first, load_model on a loaded loader returns the model held
\* and builds none, a failed load leaves is_loaded unset, and unload_model
\* leaves is_loaded unset and no model held.
C24_InvokedOnlyWhileLoaded ==
    /\ model_loader.is_loaded <=> model_loader._model # None
    /\ Last("next") =>
          /\ Val(ret).invoked # None =>
                /\ model_loader.is_loaded
                /\ model_loader._model = Val(ret).invoked
                /\ ~Val(ret).was_loaded => Val(ret).built = 1
                /\ Val(ret).was_loaded => Val(ret).built = 0
          /\ Val(ret).raised # None =>
                /\ Val(ret).invoked = None
                /\ ~model_loader.is_loaded
                /\ Val(ret).raised # Some("TypeError")
    /\ Last("load_model") =>
          /\ Val(ret).was_loaded =>
                /\ Val(ret).raised = None
                /\ Val(ret).built = 0
                /\ Val(ret).value = model_loader._model
                /\ Val(ret).value # None
          /\ Val(ret).raised # None =>
                /\ ~model_loader.is_loaded
                /\ Val(ret).built = 0
          /\ Val(ret).raised = None =>
                /\ model_loader.is_loaded
                /\ Val(ret).value = model_loader._model
    /\ Last("unload_model") =>
          /\ ~model_loader.is_loaded
          /\ model_loader._model = None

\* After a load and an unload, a generator found the loader unloaded,
\* loaded the second model itself, called it and is streaming.
C24_Witness ==
    /\ Last("next")
    /\ Val(ret).invoked = Some(2)
    /\ Val(ret).built = 1
    /\ ~Val(ret).was_loaded
    /\ call.op = "generate_stream"

---------------------------------------------------------------------------
(* Properties of the production fetcher.                                   *)

\* The values among what FRED and the World Bank answered.
ApiReturned(fred, worldbank) ==
    LET found == SelectSeq(<< fred, worldbank >>, LAMBDA v : v # None)
    IN  [i \in 1..Len(found) |-> Val(found[i])]

\* C25: APIFetcher.triangulate with known codes has no consensus exactly
\* when no service returned a value, and otherwise the rounded mean of the
\* returned values; fetch_region_data leaves out exactly the countries no
\* service returned a value for.
C25_ConsensusIffData ==
    /\ /\ call.op = "triangulate"
       /\ "fred" \in DOMAIN call
       /\ call.country_code \in PIPELINE_COUNTRIES
       /\ call.indicator_code \in DOMAIN PIPELINE_INDICATORS
       => LET values == ApiReturned(call.fred, call.worldbank)
          IN  /\ Val(ret).source_count = Len(values)
              /\ Val(ret).consensus_value = None <=> Val(ret).source_count = 0
              /\ values # << >> =>
                    Val(ret).consensus_value =
                        Some(RoundDiv(SumSeq(values), Len(values),
                             PIPELINE_INDICATORS[call.indicator_code].decimal_places))
    /\ /\ call.op = "fetch_region_data"
       /\ Val(ret).raised = None
       => LET country_codes == DictGet(PIPELINE_REGIONS, call.region, << >>)
          IN  { d.country_code : d \in Range(Val(ret).value) } =
                  { country_codes[i] : i \in { j \in DOMAIN country_codes :
                        /\ call.indicator_code \in DOMAIN PIPELINE_INDICATORS
                        /\ \/ call.answers[j].fred # None
                           \/ call.answers[j].worldbank # None } }

---------------------------------------------------------------------------
(* Properties of the shared random stream.                                 *)

\* C27: a triangulate call on known codes moves the stream on by exactly
\* four draws; a triangulate call on an unknown code, and a
\* fetch_relevant_data call for an intent of type general, leave the stream
\* where it was and fetch nothing.
C27_DrawsPerCall ==
    [][/\ call = Idle /\ call'.op = "triangulate" =>
            IF /\ call'.country_code \in DOMAIN COUNTRIES
               /\ call'.indicator_code \in DOMAIN INDICATORS
            THEN /\ rng' = [rng EXCEPT !.pos = (@ + 4) % (DrawDen + 1)]
                 /\ rng' # rng
                 /\ Val(ret').source_count = 3
            ELSE /\ rng' = rng
                 /\ Val(ret').source_count = 0
                 /\ IsNone(Val(ret').consensus_value)
       /\ /\ call = Idle
          /\ call'.op = "fetch_relevant_data"
          /\ call'.intent.type = "general"
          => /\ rng' = rng
             /\ ret' = Some(<< >>)
             /\ trace' = trace
             /\ cache' = cache]_vars

\* The stream stands four draws from its start: one triangulate call on
\* known codes was made, and the call for a general intent with a country
\* and an indicator that came after it moved nothing and returned nothing.
C27_Witness ==
    /\ call.op = "fetch_relevant_data"
    /\ call.intent.type = "general"
    /\ call.intent.countries = << "USA" >>
    /\ call.intent.indicators = << "gdp_growth" >>
    /\ ret = Some(<< >>)
    /\ rng.pos = 4
    /\ trace = << >>

---------------------------------------------------------------------------
(* Properties of the dispatch with respect to the cache.                   *)

\* The calls recorded during the step.
NewCalls == SubSeq(trace', Len(trace) + 1, Len(trace'))

\* The keys in the cache.
CachedKeys(entries) == { entries[n].key : n \in DOMAIN entries }

\* C28: fetch_relevant_data for ranking and regional intents calls the
\* triangulation engine directly: the cache stays as it is and every
\* country is triangulated again on each call.  For comparison and
\* single_country intents every result comes from get_data: each key asked
\* for is in the cache afterwards, and the engine runs only for the keys the
\* cache did not hold.
C28_RankingBypassesCache ==
    [][call = Idle /\ call'.op = "fetch_relevant_data" =>
        LET intent == call'.intent
        IN  /\ intent.type \in { "ranking", "regional" } =>
                /\ cache' = cache
                /\ \A k \in DOMAIN NewCalls :
                      /\ NewCalls[k].op \in { "get_region_data", "get_global_ranking" }
                      /\ \A d \in Range(NewCalls[k].results) : d.source_count = 3
                /\ rng' = Advance(rng, 4 * SumSeq([k \in DOMAIN NewCalls |->
                            Len(IF NewCalls[k].op = "get_region_data"
                                THEN DictGet(REGIONS, NewCalls[k].argument, << >>)
                                ELSE RankedCodes)]))
            /\ intent.type \in { "comparison", "single_country" } =>
                /\ \A k \in DOMAIN NewCalls :
                      /\ NewCalls[k].op = "get_data"
                      /\ NewCalls[k].key \in CachedKeys(cache')
                      /\ NewCalls[k].triangulated <=>
                            /\ NewCalls[k].key \notin CachedKeys(cache)
                            /\ \A j \in 1..(k - 1) : NewCalls[j].key # NewCalls[k].key
                /\ Range(Val(ret')) \subseteq { NewCalls[k].value : k \in DOMAIN NewCalls }
                /\ CachedKeys(cache') =
                      CachedKeys(cache) \cup { NewCalls[k].key : k \in DOMAIN NewCalls }]_vars

\* The cache holds gdp_growth of the USA from an earlier single_country
\* fetch; the ranking of North America by gdp_growth that came next left
\* the cache alone and lists the USA with another value than the cached one.
C28_Witness ==
    /\ call.op = "fetch_relevant_data"
    /\ call.intent.type = "ranking"
    /\ call.intent.is_regional
    /\ Len(cache) = 1
    /\ cache[1].key[1] = "gdp_growth" /\ cache[1].key[2] = "USA"
    /\ \E d \in Range(Val(ret)) :
          /\ d.country_code = "USA"
          /\ d.consensus_value # cache[1].value.consensus_value

---------------------------------------------------------------------------
(* Properties of the order of the indicators and of the regions.           *)

\* The place of an indicator code in METRIC_KEYWORDS.
KeywordIndex(code) == CHOOSE i \in DOMAIN METRIC_KEYWORDS : METRIC_KEYWORDS[i][1] = code

\* detect_intent has resolved the query of the call.
Resolved == call.op = "detect_intent" /\ ret # None

\* The query of the call has the phrase in it.
Mentions(phrase) == Contains(Lower(call.query), phrase)

\* C29: the indicators of an intent stand in the order of the keyword
\* table, wherever the query mentions them; a query with "gdp per capita"
\* in it lists gdp_growth first and gdp_per_capita after it, and the ranking
\* fetched for it is the ranking by gdp_growth.
C29_IndicatorsInTableOrder ==
    Resolved =>
        LET intent == Val(ret)
        IN  /\ \A j, k \in DOMAIN intent.indicators :
                  j < k => KeywordIndex(intent.indicators[j])
                               < KeywordIndex(intent.indicators[k])
            /\ Mentions("gdp per capita") =>
                  /\ intent.indicators[1] = "gdp_growth"
                  /\ \E k \in 2..Len(intent.indicators) :
                        intent.indicators[k] = "gdp_per_capita"
                  /\ intent.type = "ranking" =>
                        \E fetched \in { fetch_relevant_data(intent, rng, now, cache) } :
                           /\ Len(fetched.calls) = 1
                           /\ fetched.calls[1].indicator_code = "gdp_growth"
                           /\ \A d \in Range(fetched.data) :
                                 d.indicator_code = "gdp_growth"

\* The query names inflation before GDP per capita; the intent is a
\* ranking one and lists gdp_growth, inflation, gdp_per_capita.
C29_Witness ==
    /\ Resolved
    /\ call.query = "top countries in Asia - South by inflation GDP per capita"
    /\ Val(ret).type = "ranking"
    /\ Val(ret).indicators = << "gdp_growth", "inflation", "gdp_per_capita" >>

\* The regions, by their place in REGIONS, the query of the call names in
\* one of the two forms.
Named ==
    { i \in DOMAIN RegionNames :
        \/ Mentions(Lower(RegionNames[i]))
        \/ Mentions(ReplaceDash(Lower(RegionNames[i]))) }

PlaceOf(name) == CHOOSE i \in DOMAIN RegionNames : RegionNames[i] = name

\* Every region but "Asia - Southeast" is resolved from a query that is its
\* name, in any of the forms.
OthersByOwnName ==
    \A i \in DOMAIN RegionNames \ { PlaceOf("Asia - Southeast") } :
        call.query \in RegionForms(RegionNames[i]) =>
            Val(ret).region = Some(RegionNames[i])

\* C30, as stated: no query resolves to "Asia - Southeast", every query
\* with the name of "Asia - Southeast" in it resolves to "Asia - South", and
\* every other region is resolvable by its own name.
C30_SoutheastIsSouth ==
    Resolved =>
        /\ Val(ret).region # Some("Asia - Southeast")
        /\ PlaceOf("Asia - Southeast") \in Named =>
              Val(ret).region = Some("Asia - South")
        /\ OthersByOwnName

\* C30, amended: no query resolves to "Asia - Southeast"; a query with the
\* name of "Asia - Southeast" in it resolves to "Asia - South" unless it
\* also names a region declared before "Asia - South", and then to the
\* first of those; every other region is resolvable by its own name.
C30_SoutheastUnreachable ==
    Resolved =>
        /\ Val(ret).region # Some("Asia - Southeast")
        /\ PlaceOf("Asia - Southeast") \in Named =>
              LET earlier == { i \in Named : i < PlaceOf("Asia - South") }
              IN  IF earlier = {} THEN Val(ret).region = Some("Asia - South")
                  ELSE \E i \in earlier :
                          /\ \A j \in earlier : i <= j
                          /\ Val(ret).region = Some(RegionNames[i])
        /\ OthersByOwnName

\* The query is the name of "Asia - Southeast" and nothing else; it was
\* resolved to "Asia - South".
C30_Witness ==
    /\ Resolved
    /\ call.query = "Asia - Southeast"
    /\ Val(ret).is_regional
    /\ Val(ret).region = Some("Asia - South")

=============================================================================
